---------------------------- MODULE Spec2Model ----------------------------
(***************************************************************************)
(* State-machine model of the SDN load-balancing controllers of            *)
(* Rahel17/sdn-loadbalance:                                                *)
(*   controllers/wrr.py            WRRController (WRR + ECMP + VIP NAT)     *)
(*   controllers/loadBalancing.py  FatTreeLoadBalancer                      *)
(*   controllers/wlc.py            WeightedLeastConnectionController        *)
(*   controllers/fat_tree_no_loop.py  FatTreeNoLoop                         *)
(*   controllers/fat_tree_simple_controller.py  FatTreeSimple            *)
(* Each controller is a separate program, so each has its own              *)
(* specification (SpecWRR, SpecWLC, ...) over its own group of variables;  *)
(* the variables of the other controllers stay at their initial value.     *)
(***************************************************************************)
EXTENDS Integers, Sequences, FiniteSets, TLC

VARIABLES
    \* ---- wrr.py: WRR selection state (WRRController.__init__) ----
    server_list,      \* ordered backend list
    weights,          \* backend -> weight
    current_index,    \* cursor, -1 initially
    current_weight,   \* decrementing threshold, 0 initially
    wrr_hist,         \* history: the sequence of servers get_next_server returned
    \* ---- loadBalancing.py: FatTreeLoadBalancer ----
    lb_server_list,   \* ordered dict ip -> {weight, active_conn}, as a sequence
    lb_current_server,
    lb_hist,          \* history: the sequence weighted_round_robin returned
    \* ---- wlc.py: WeightedLeastConnectionController ----
    port_stats,       \* dpid -> ordered dict port -> {weight, connections}
    wlc_mac_to_port,  \* dpid -> (mac -> port)
    wlc_last,         \* history: the event handled last and what it decided
    wlc_flows,        \* the flow table of the switch the WLC controller drives
    wlc_to_ctl,       \* messages in flight from that switch to the controller
    wlc_to_sw,        \* messages in flight from the controller to that switch
    \* ---- fat_tree_no_loop.py: FatTreeNoLoop ----
    handled_arps,     \* the dedup set: modelled keys, and how many other keys
    nl_arp_table,     \* ip -> mac
    nl_mac_to_port,   \* dpid -> (mac -> port)
    nl_last,          \* history: the ARP packet-in handled last, its packet-outs
    nl_prev,          \* history: the ARP packet-in handled before that one
    nl_flows,         \* the switches' flow tables: dpid -> set of entries
    \* WRRController (src/controllers/wrr.py): topology and ECMP paths
    datapaths,        \* self.datapaths: the registered dpids
    adj,              \* self.adj: dpid -> its neighbours in insertion order,
                      \* each with the egress port toward it
    paths_cache,      \* self.paths_cache: <<src, dst>> -> sequence of paths
    topo_links,       \* the links the topology service reports (get_all_link),
                      \* in the order it discovered them
    ecmp_last,        \* history: the ecmp_paths call made last and its result,
                      \* or the disconnect handled last
    \* WRRController (src/controllers/wrr.py): host registry and data plane
    hosts,            \* self.hosts: ip -> [dpid, port, mac]
    flows,            \* the switches' flow tables: dpid -> (match -> actions)
    wire,             \* the packet in flight: at a switch's ingress port, or
                      \* sent to the controller as a packet-in, or none
    nat_last,         \* history: the packet handed to a host last
    nat_install,      \* history: the arguments of the install_nat_path call
                      \* made by the handler that ran last
    nat_chosen,       \* history: the backends a NAT path was installed to
    nat_up,           \* the backend hosts that are up
    nat_pending,      \* flow-mods sent to a switch and not yet applied by it:
                      \* dpid -> (match -> actions)
    pin_last,         \* history: the packet-in WRRController handled last,
                      \* the packet-outs it sent and the state before it
    \* ---- the ARP side of wlc.py and fat_tree_simple_controller.py ----
    app,              \* the controller application ryu-manager runs
    wlc_arp_table,    \* WLC self.arp_table: ip -> mac
    wlc_arp_cache,    \* WLC self.arp_cache: the keys it holds a time for
    packet_count,     \* FatTreeSimple self.packet_count
    arp_last,         \* history: the ARP packet-in handled last by the WLC
                      \* or the simple controller, and its packet-outs
    \* ---- one ARP request on the k=4 fat tree ----
    fa_req,           \* the request a host has sent: asking and asked address
    fa_copies,        \* its copies that reached a switch and await their
                      \* packet-in: switch, ingress port, whether the copy
                      \* has taken a downward hop
    fa_out,           \* the host-facing ports a copy was emitted on
    fa_pins,          \* the number of packet-ins handled for the request
    fa_bad            \* history: a copy went upward after a downward hop

wrrVars == <<server_list, weights, current_index, current_weight, wrr_hist>>
lbVars  == <<lb_server_list, lb_current_server, lb_hist>>
wlcNet  == <<wlc_flows, wlc_to_ctl, wlc_to_sw>>
wlcVars == <<port_stats, wlc_mac_to_port, wlc_last, wlcNet>>
nlVars  == <<handled_arps, nl_arp_table, nl_mac_to_port, nl_last, nl_prev, nl_flows>>
topoVars == <<datapaths, adj, paths_cache, topo_links, ecmp_last>>
natVars == <<hosts, flows, wire, nat_last, nat_install, nat_chosen, nat_up, nat_pending>>
pinVars == <<pin_last>>
arpVars == <<app, wlc_arp_table, wlc_arp_cache, packet_count, arp_last>>
faVars  == <<fa_req, fa_copies, fa_out, fa_pins, fa_bad>>
vars    == <<wrrVars, lbVars, wlcVars, nlVars, faVars, topoVars, natVars, pinVars, arpVars>>

\* ------------------------------------------------------------------------
\* Bounds of the model
\* ------------------------------------------------------------------------
MaxServers == 3      \* configured backends: 1..MaxServers
MaxWeight  == 3      \* configured weights: 1..MaxWeight
MaxHist    == 12     \* selections recorded per implementation
MaxConn    == 4      \* WLC: a selection is taken only below this counter value
MaxBody    == 2      \* WLC: flow entries listed in one flow-stats reply

\* ------------------------------------------------------------------------
\* Generic helpers
\* ------------------------------------------------------------------------
Max(S) == CHOOSE x \in S : \A y \in S : y <= x

RECURSIVE SumSeq(_)
SumSeq(s) == IF s = <<>> THEN 0 ELSE Head(s) + SumSeq(Tail(s))

EmptyFn == [x \in {} |-> 0]

\* EtherTypes and the reserved controller port of OpenFlow 1.3
ETH_TYPE_IP   == 2048      \* 0x0800
ETH_TYPE_ARP  == 2054      \* 0x0806
ETH_TYPE_IPV6 == 34525     \* 0x86dd
ETH_TYPE_LLDP == 35020     \* 0x88cc
OFPP_CONTROLLER == -3      \* 0xfffffffd as a signed 32-bit number

SeqSet(q) == {q[i] : i \in 1..Len(q)}

\* the value each group of variables has after construction
WrrIdle ==
    /\ server_list = <<>> /\ weights = EmptyFn
    /\ current_index = -1 /\ current_weight = 0 /\ wrr_hist = <<>>
NoRequest == [src |-> 0, dst |-> 0]
FaIdle  == fa_req = NoRequest /\ fa_copies = EmptyFn /\ fa_out = {} /\ fa_pins = 0 /\ fa_bad = FALSE
LbIdle  == lb_server_list = <<>> /\ lb_current_server = 0 /\ lb_hist = <<>>

\* number of positions from..from+len-1 of h holding x
CountIn(h, x, from, len) == Cardinality({i \in from..(from + len - 1) : h[i] = x})

\* ========================================================================
\* wrr.py : WRRController, WRR selection
\* ========================================================================
\* self.max_weight = max(self.weights.values())
max_weight == Max({weights[s] : s \in DOMAIN weights})

\* self.gcd_weight = 1  # simple; weights above are small
gcd_weight == 1

\* One run of the while-True loop of get_next_server from cursor idx and
\* threshold cw; yields the new cursor, the new threshold, the server and
\* the number n of iterations made.
\* (variant of WrrLoop that resets the threshold only once it is negative)
RECURSIVE WrrLoopResetLate(_, _)
WrrLoopResetLate(idx, cw) ==
    LET i1  == (idx + 1) % Len(server_list)
        cw1 == IF i1 = 0
               THEN (IF cw - gcd_weight < 0 THEN max_weight ELSE cw - gcd_weight)
               ELSE cw
    IN  IF weights[server_list[i1 + 1]] >= cw1
        THEN [idx |-> i1, cw |-> cw1, srv |-> server_list[i1 + 1], n |-> 1]
        ELSE [WrrLoopResetLate(i1, cw1) EXCEPT !.n = @ + 1]

RECURSIVE WrrLoop(_, _)
WrrLoop(idx, cw) ==
    LET i1  == (idx + 1) % Len(server_list)
        cw1 == IF i1 = 0
               THEN (IF cw - gcd_weight <= 0 THEN max_weight ELSE cw - gcd_weight)
               ELSE cw
    IN  IF weights[server_list[i1 + 1]] >= cw1
        THEN [idx |-> i1, cw |-> cw1, srv |-> server_list[i1 + 1], n |-> 1]
        ELSE [WrrLoop(i1, cw1) EXCEPT !.n = @ + 1]

\* get_next_server(): advances the cursor state and returns a server
GetNextServer ==
    /\ Len(wrr_hist) < MaxHist
    /\ LET r == WrrLoop(current_index, current_weight)
       IN  /\ current_index' = r.idx
           /\ current_weight' = r.cw
           /\ wrr_hist' = Append(wrr_hist, r.srv)
    /\ UNCHANGED <<server_list, weights, lbVars, pinVars, arpVars, wlcVars, nlVars, faVars, topoVars, natVars>>

\* ========================================================================
\* loadBalancing.py : FatTreeLoadBalancer.weighted_round_robin
\* ========================================================================
LbTotalWeight == SumSeq([i \in 1..Len(lb_server_list) |-> lb_server_list[i].weight])

\* the for loop: first ip whose cumulative weight exceeds cs, else server_ips[0]
RECURSIVE LbPick(_, _, _)
LbPick(i, cum, cs) ==
    IF i > Len(lb_server_list) THEN 1
    ELSE IF cs < cum + lb_server_list[i].weight THEN i
    ELSE LbPick(i + 1, cum + lb_server_list[i].weight, cs)

LbNextCursor(cs) == (cs + 1) % LbTotalWeight

WeightedRoundRobin ==
    /\ Len(lb_hist) < MaxHist
    /\ lb_current_server' = LbNextCursor(lb_current_server)
    /\ lb_hist' = Append(lb_hist, LbPick(1, 0, lb_current_server'))
    /\ UNCHANGED <<lb_server_list, wrrVars, pinVars, arpVars, wlcVars, nlVars, faVars, topoVars, natVars>>

\* ========================================================================
\* wlc.py : WeightedLeastConnectionController
\* An IP address 10.0.0.n is modelled by its host number n, and the MAC of
\* host n by n as well (FatTreeFixed gives host n the MAC 00:..:n).
\* ========================================================================
WlcSwitches == {5, 13}            \* one aggregation and one edge switch
WlcPorts    == 1..4               \* the ports of a k=4 fat-tree switch
\* IPv4 packet-ins raised: switch, ingress port, source and destination host
WlcTraffic  == { [dpid |-> 13, in_port |-> 1, src |-> 1, dst |-> 9],
                 [dpid |-> 13, in_port |-> 1, src |-> 1, dst |-> 2],
                 [dpid |-> 13, in_port |-> 3, src |-> 9, dst |-> 1],
                 [dpid |-> 5,  in_port |-> 1, src |-> 1, dst |-> 9],
                 [dpid |-> 5,  in_port |-> 1, src |-> 1, dst |-> 2] }

IsCore(dpid) == 1 <= dpid /\ dpid <= 4
IsAgg(dpid)  == 5 <= dpid /\ dpid <= 12
IsEdge(dpid) == 13 <= dpid /\ dpid <= 20

\* self.port_weights: {3: 3, 4: 2} for edge_uplinks and for agg_uplinks
PortWeights(dpid) ==
    IF IsEdge(dpid) \/ IsAgg(dpid)
    THEN << [port |-> 3, weight |-> 3], [port |-> 4, weight |-> 2] >>
    ELSE << >>

\* switch_features_handler: port_stats[dpid] = {port: {weight, connections: 0}}
InitPortStats(dpid) ==
    [i \in 1..Len(PortWeights(dpid)) |->
        [port |-> PortWeights(dpid)[i].port,
         weight |-> PortWeights(dpid)[i].weight,
         connections |-> 0]]

TrackedPorts(stats) == {stats[i].port : i \in 1..Len(stats)}
ConnOf(stats, port) ==
    LET i == CHOOSE j \in 1..Len(stats) : stats[j].port = port
    IN  stats[i].connections

\* A ratio connections/weight is kept as a fraction; float('inf') is 1/0.
\* Python compares the float quotients; for these small integers the
\* quotients of different fractions differ, so the comparison is exact.
Inf == [num |-> 1, den |-> 0]
RatioOfUnweighted(st) == [num |-> st.connections, den |-> 1]
RatioOf(st) == IF st.weight > 0 THEN [num |-> st.connections, den |-> st.weight] ELSE Inf
RatioLessOrEqual(a, b) == a.num * b.den <= b.num * a.den
RatioLess(a, b) == a.num * b.den < b.num * a.den

\* the for loop of get_least_loaded_port over port_stats[dpid].items()
RECURSIVE LeastLoop(_, _, _, _)
LeastLoop(stats, i, min_ratio, best_port) ==
    IF i > Len(stats) THEN best_port
    ELSE IF RatioLess(RatioOf(stats[i]), min_ratio)
         THEN LeastLoop(stats, i + 1, RatioOf(stats[i]), stats[i].port)
         ELSE LeastLoop(stats, i + 1, min_ratio, best_port)

get_least_loaded_port(dpid) ==
    IF dpid \notin DOMAIN port_stats \/ port_stats[dpid] = << >>
    THEN 3
    ELSE LeastLoop(port_stats[dpid], 1, Inf, 3)

\* handle_ip_with_wlc: the output port (0 for None) and whether WLC chose it.
\* mtp is mac_to_port[dpid] after the source MAC has been learned.
HandleIpDecision(dpid, in_port, dst, eth_dst, mtp) ==
    IF IsEdge(dpid) THEN
        LET local_start == (dpid - 13) * 2 + 1
            local_end   == local_start + 1
        IN  IF in_port <= 2
            THEN IF local_start <= dst /\ dst <= local_end
                 THEN [out_port |-> (dst - local_start) + 1, use_wlc |-> FALSE]
                 ELSE [out_port |-> get_least_loaded_port(dpid), use_wlc |-> TRUE]
            ELSE IF eth_dst \in DOMAIN mtp
                 THEN [out_port |-> mtp[eth_dst], use_wlc |-> FALSE]
                 ELSE [out_port |-> 1, use_wlc |-> FALSE]
    ELSE IF IsAgg(dpid) THEN
        LET pod       == (dpid - 5) \div 2
            pod_start == pod * 4 + 1
            pod_end   == pod * 4 + 4
        IN  IF in_port <= 2
            THEN IF pod_start <= dst /\ dst <= pod_end
                 THEN [out_port |-> ((dst - pod_start) \div 2) + 1, use_wlc |-> FALSE]
                 ELSE [out_port |-> get_least_loaded_port(dpid), use_wlc |-> TRUE]
            ELSE [out_port |-> ((dst - pod_start) \div 2) + 1, use_wlc |-> FALSE]
    ELSE IF IsCore(dpid) THEN
        [out_port |-> ((dst - 1) \div 4) + 1, use_wlc |-> FALSE]
    ELSE [out_port |-> 0, use_wlc |-> FALSE]

\* self.port_stats[dpid][out_port]['connections'] += 1
IncConnEach(stats, port) ==
    [i \in 1..Len(stats) |-> [stats[i] EXCEPT !.connections = @ + 1]]
IncConn(stats, port) ==
    [i \in 1..Len(stats) |->
        IF stats[i].port = port THEN [stats[i] EXCEPT !.connections = @ + 1]
        ELSE stats[i]]

\* connections = max(0, connections - 1)
DecConnUnfloored(stats, port) ==
    [i \in 1..Len(stats) |->
        IF stats[i].port = port THEN [stats[i] EXCEPT !.connections = @ - 1]
        ELSE stats[i]]
DecConn(stats, port) ==
    [i \in 1..Len(stats) |->
        IF stats[i].port = port
        THEN [stats[i] EXCEPT !.connections = IF @ - 1 > 0 THEN @ - 1 ELSE 0]
        ELSE stats[i]]

\* wlc_last: the handler run last (ev, dpid), the port it concerned, whether
\* WLC chose that port, port_stats as they were before the handler ran, and
\* for a flow-stats reply the entries it listed, for a packet-in the
\* destination host number of the packet
WlcNoEvent == [ev |-> "none", dpid |-> 0, port |-> 0, use_wlc |-> FALSE,
               before |-> EmptyFn, body |-> << >>, dst |-> 0]

WlcInit ==
    /\ port_stats = EmptyFn
    /\ wlc_mac_to_port = EmptyFn
    /\ wlc_last = WlcNoEvent
    /\ wlc_flows = {}
    /\ wlc_to_ctl = << >>
    /\ wlc_to_sw = << >>

\* switch_features_handler (the flow-mods it sends are not part of this state)
WlcSwitchFeaturesHandler(dpid) ==
    /\ port_stats' = (dpid :> InitPortStats(dpid)) @@ port_stats
    /\ wlc_mac_to_port' = IF dpid \in DOMAIN wlc_mac_to_port THEN wlc_mac_to_port
                          ELSE (dpid :> EmptyFn) @@ wlc_mac_to_port
    /\ wlc_last' = [ev |-> "features", dpid |-> dpid, port |-> 0, use_wlc |-> FALSE,
                    before |-> port_stats, body |-> << >>, dst |-> 0]

WlcSwitchFeatures(dpid) ==
    /\ WlcSwitchFeaturesHandler(dpid)
    /\ UNCHANGED <<wlcNet, wrrVars, lbVars, pinVars, arpVars, nlVars, faVars, topoVars, natVars>>

\* packet_in_handler for an IPv4 frame (ethertype 0x0800 with an ipv4 layer),
\* raised by a switch that has connected
WlcPacketInHandler(bound, dpid, in_port, src, dst) ==
    /\ dpid \in DOMAIN port_stats
    /\ LET mtp == (src :> in_port) @@ wlc_mac_to_port[dpid]
           d   == HandleIpDecision(dpid, in_port, dst, dst, mtp)
       IN  /\ d.use_wlc => ConnOf(port_stats[dpid], d.out_port) < bound
           /\ wlc_mac_to_port' = [wlc_mac_to_port EXCEPT ![dpid] = mtp]
           /\ port_stats' =
                IF d.use_wlc /\ d.out_port \in TrackedPorts(port_stats[dpid])
                THEN [port_stats EXCEPT ![dpid] = IncConn(@, d.out_port)]
                ELSE port_stats
           /\ wlc_last' = [ev |-> "packet_in", dpid |-> dpid, port |-> d.out_port,
                           use_wlc |-> d.use_wlc, before |-> port_stats,
                           body |-> << >>, dst |-> dst]

WlcPacketInWithin(bound, dpid, in_port, src, dst) ==
    /\ WlcPacketInHandler(bound, dpid, in_port, src, dst)
    /\ UNCHANGED <<wlcNet, wrrVars, lbVars, pinVars, arpVars, nlVars, faVars, topoVars, natVars>>

WlcPacketIn(dpid, in_port, src, dst) ==
    WlcPacketInWithin(MaxConn, dpid, in_port, src, dst)

\* flow_removed_handler for a removed flow whose action outputs to port
WlcFlowRemovedHandler(dpid, port) ==
    /\ port_stats' =
         IF dpid \in DOMAIN port_stats /\ port \in TrackedPorts(port_stats[dpid])
         THEN [port_stats EXCEPT ![dpid] = DecConn(@, port)]
         ELSE port_stats
    /\ wlc_last' = [ev |-> "flow_removed", dpid |-> dpid, port |-> port,
                    use_wlc |-> FALSE, before |-> port_stats, body |-> << >>, dst |-> 0]
    /\ UNCHANGED wlc_mac_to_port

WlcFlowRemoved(dpid, port) ==
    /\ WlcFlowRemovedHandler(dpid, port)
    /\ UNCHANGED <<wlcNet, wrrVars, lbVars, pinVars, arpVars, nlVars, faVars, topoVars, natVars>>

\* a flow-stats reply lists flow entries: priority and output port of each
StatEntries == << [priority |-> 10, port |-> 3], [priority |-> 10, port |-> 4],
                 [priority |-> 10, port |-> 2], [priority |-> 100, port |-> 3] >>
\* the replies of up to MaxBody entries (the handler only counts entries, so
\* one order of each combination is enough)
StatBodies  ==
    UNION { { [i \in 1..n |-> StatEntries[f[i]]] :
                f \in {g \in [1..n -> 1..Len(StatEntries)] :
                          \A i \in 1..n, j \in 1..n : i <= j => g[i] <= g[j]} } :
            n \in 0..MaxBody }

CountBody(body, port) ==
    Cardinality({i \in 1..Len(body) : body[i].priority = 10 /\ body[i].port = port})

\* the recount without the reset of the counters
RecountConnNoReset(stats, body) ==
    [i \in 1..Len(stats) |->
        [stats[i] EXCEPT !.connections = @ + CountBody(body, stats[i].port)]]

\* reset every counter of the switch, then count the priority-10 entries
RecountConn(stats, body) ==
    [i \in 1..Len(stats) |->
        [stats[i] EXCEPT !.connections = CountBody(body, stats[i].port)]]

\* flow_stats_reply_handler
WlcFlowStatsReplyHandler(dpid, body) ==
    /\ port_stats' =
         IF dpid \notin DOMAIN port_stats THEN port_stats
         ELSE [port_stats EXCEPT ![dpid] = RecountConn(port_stats[dpid], body)]
    /\ wlc_last' = [ev |-> "stats_reply", dpid |-> dpid, port |-> 0,
                    use_wlc |-> FALSE, before |-> port_stats, body |-> body, dst |-> 0]
    /\ UNCHANGED wlc_mac_to_port

WlcFlowStatsReply(dpid, body) ==
    /\ WlcFlowStatsReplyHandler(dpid, body)
    /\ UNCHANGED <<wlcNet, wrrVars, lbVars, pinVars, arpVars, nlVars, faVars, topoVars, natVars>>

\* ---- WLC: one edge switch, its flow table and its control channel ----
\* The switch and the controller exchange messages over one connection, in
\* order each way. Of the flow-mods of switch_features_handler the delete-all
\* and the table-miss rule are kept; the priority-200 and priority-100 rules
\* do not match the traffic below and are no priority-10 entries.
WlcNetSwitch == 13
MaxInFlight == 2
\* the flows host 10.0.0.1 (port 1) opens to hosts of another pod
WlcNetFlows == { [src |-> 1, dst |-> 9], [src |-> 1, dst |-> 10] }
WlcNetInPort == 1

WlcTableMiss == [priority |-> 0, src |-> 0, dst |-> 0, port |-> OFPP_CONTROLLER]
\* add_flow(datapath, 10, match, [OFPActionOutput(out_port)], idle_timeout=60)
WlcFlowEntry(src, dst, port) == [priority |-> 10, src |-> src, dst |-> dst, port |-> port]

\* OFPFC_ADD replaces an entry of the same priority and match
WlcAddEntry(table, e) ==
    {x \in table : ~(x.priority = e.priority /\ x.src = e.src /\ x.dst = e.dst)} \cup {e}

\* the body of a flow-stats reply: priority and output port of every entry
RECURSIVE WlcStatsBody(_)
WlcStatsBody(table) ==
    IF table = {} THEN << >>
    ELSE LET e == CHOOSE x \in table : TRUE
         IN  <<[priority |-> e.priority, port |-> e.port]>> \o WlcStatsBody(table \ {e})

\* packets, timeouts and stats requests are taken up while fewer than
\* MaxInFlight messages are in flight
WlcNetRoom == Len(wlc_to_ctl) + Len(wlc_to_sw) < MaxInFlight

WlcNetOthers == <<wrrVars, lbVars, pinVars, arpVars, nlVars, faVars, topoVars, natVars>>

\* the switch connects: switch_features_handler and the flow-mods it sends
WlcNetConnect ==
    /\ WlcNetSwitch \notin DOMAIN port_stats
    /\ WlcSwitchFeaturesHandler(WlcNetSwitch)
    /\ wlc_to_sw' = wlc_to_sw \o << [type |-> "delete_all"],
                                    [type |-> "flow_mod", entry |-> WlcTableMiss] >>
    /\ UNCHANGED <<wlc_flows, wlc_to_ctl, WlcNetOthers>>

\* a packet of a flow reaches the switch: forwarded by the flow's entry if
\* there is one, else sent to the controller by the table-miss rule
WlcNetPacket(f) ==
    /\ WlcTableMiss \in wlc_flows
    /\ ~ \E e \in wlc_flows : e.priority = 10 /\ e.src = f.src /\ e.dst = f.dst
    /\ WlcNetRoom
    /\ wlc_to_ctl' = Append(wlc_to_ctl, [type |-> "packet_in", src |-> f.src, dst |-> f.dst])
    /\ UNCHANGED <<port_stats, wlc_mac_to_port, wlc_last, wlc_flows, wlc_to_sw, WlcNetOthers>>

\* the controller handles the packet-in at the head of its queue and sends
\* the flow-mod (the packet-out changes no state kept here)
WlcNetCtlPacketIn ==
    /\ wlc_to_ctl # << >> /\ Head(wlc_to_ctl).type = "packet_in"
    /\ WlcPacketInHandler(MaxConn, WlcNetSwitch, WlcNetInPort,
                          Head(wlc_to_ctl).src, Head(wlc_to_ctl).dst)
    /\ wlc_to_ctl' = Tail(wlc_to_ctl)
    /\ wlc_to_sw' = IF wlc_last'.port = 0 THEN wlc_to_sw
                    ELSE Append(wlc_to_sw,
                                [type |-> "flow_mod",
                                 entry |-> WlcFlowEntry(Head(wlc_to_ctl).src,
                                                        Head(wlc_to_ctl).dst,
                                                        wlc_last'.port)])
    /\ UNCHANGED <<wlc_flows, WlcNetOthers>>

\* _monitor: a flow-stats request is sent to the connected switch
WlcNetMonitor ==
    /\ WlcNetSwitch \in DOMAIN port_stats
    /\ WlcNetRoom
    /\ wlc_to_sw' = Append(wlc_to_sw, [type |-> "stats_request"])
    /\ UNCHANGED <<port_stats, wlc_mac_to_port, wlc_last, wlc_flows, wlc_to_ctl, WlcNetOthers>>

\* the switch applies the message at the head of its queue
WlcNetSwitchApply ==
    /\ wlc_to_sw # << >>
    /\ wlc_to_sw' = Tail(wlc_to_sw)
    /\ LET m == Head(wlc_to_sw)
       IN  /\ wlc_flows' = IF m.type = "delete_all" THEN {}
                           ELSE IF m.type = "flow_mod" THEN WlcAddEntry(wlc_flows, m.entry)
                           ELSE wlc_flows
           /\ wlc_to_ctl' = IF m.type = "stats_request"
                            THEN Append(wlc_to_ctl, [type |-> "stats_reply",
                                                     body |-> WlcStatsBody(wlc_flows)])
                            ELSE wlc_to_ctl
    /\ UNCHANGED <<port_stats, wlc_mac_to_port, wlc_last, WlcNetOthers>>

\* idle_timeout=60 with OFPFF_SEND_FLOW_REM: the switch removes an idle
\* priority-10 entry and reports it
WlcNetIdleTimeout(e) ==
    /\ e \in wlc_flows /\ e.priority = 10
    /\ WlcNetRoom
    /\ wlc_flows' = wlc_flows \ {e}
    /\ wlc_to_ctl' = Append(wlc_to_ctl, [type |-> "flow_removed", port |-> e.port])
    /\ UNCHANGED <<port_stats, wlc_mac_to_port, wlc_last, wlc_to_sw, WlcNetOthers>>

WlcNetCtlFlowRemoved ==
    /\ wlc_to_ctl # << >> /\ Head(wlc_to_ctl).type = "flow_removed"
    /\ WlcFlowRemovedHandler(WlcNetSwitch, Head(wlc_to_ctl).port)
    /\ wlc_to_ctl' = Tail(wlc_to_ctl)
    /\ UNCHANGED <<wlc_flows, wlc_to_sw, WlcNetOthers>>

WlcNetCtlStatsReply ==
    /\ wlc_to_ctl # << >> /\ Head(wlc_to_ctl).type = "stats_reply"
    /\ WlcFlowStatsReplyHandler(WlcNetSwitch, Head(wlc_to_ctl).body)
    /\ wlc_to_ctl' = Tail(wlc_to_ctl)
    /\ UNCHANGED <<wlc_flows, wlc_to_sw, WlcNetOthers>>

NextWlcNet ==
    \/ WlcNetConnect
    \/ \E f \in WlcNetFlows : WlcNetPacket(f)
    \/ WlcNetCtlPacketIn
    \/ WlcNetMonitor
    \/ WlcNetSwitchApply
    \/ \E e \in wlc_flows : WlcNetIdleTimeout(e)
    \/ WlcNetCtlFlowRemoved
    \/ WlcNetCtlStatsReply

\* runs of WLC selections: switches connect (counters at zero) and raise
\* packet-ins, with no flow-removed and no flow-stats reply; a selection is
\* taken while the selected counter is below MaxRun
MaxRun == 6
\* ---- loadBalancing.py : FatTreeLoadBalancer.weighted_least_connection ----
\* ratio = active_conn / weight if weight > 0 else active_conn
LbRatioOf(data) ==
    IF data.weight > 0 THEN [num |-> data.active_conn, den |-> data.weight]
    ELSE [num |-> data.active_conn, den |-> 1]

\* the for loop over server_list.items(); selected_ip None is 0
RECURSIVE LbLeastLoop(_, _, _)
LbLeastLoop(i, min_ratio, selected_ip) ==
    IF i > Len(lb_server_list) THEN selected_ip
    ELSE IF RatioLess(LbRatioOf(lb_server_list[i]), min_ratio)
         THEN LbLeastLoop(i + 1, LbRatioOf(lb_server_list[i]), i)
         ELSE LbLeastLoop(i + 1, min_ratio, selected_ip)

weighted_least_connection == LbLeastLoop(1, Inf, 0)

\* packet_in_handler for an IPv4 packet addressed to a server, with
\* ALGORITHM = "WLC": select_server, then active_conn += 1 for the selection
LbWlcPacketIn ==
    /\ Len(lb_hist) < MaxHist
    /\ \E sel \in {weighted_least_connection} :
           /\ sel # 0
           /\ lb_server_list' = [lb_server_list EXCEPT ![sel].active_conn = @ + 1]
           /\ lb_hist' = Append(lb_hist, sel)
    /\ UNCHANGED <<lb_current_server, wrrVars, pinVars, arpVars, wlcVars, nlVars, faVars,
                   topoVars, natVars>>

\* the configurations of 1..MaxServers servers with weights 0..MaxWeight,
\* as constructed (no connection counted)
LbWlcInit ==
    /\ \E n \in 1..MaxServers :
           lb_server_list \in [1..n -> [weight : 0..MaxWeight, active_conn : {0}]]
    /\ lb_current_server = 0
    /\ lb_hist = << >>

NextLbWlc == LbWlcPacketIn

NextWlcRun ==
    \/ \E dpid \in WlcSwitches : WlcSwitchFeatures(dpid)
    \/ \E t \in WlcTraffic : WlcPacketInWithin(MaxRun, t.dpid, t.in_port, t.src, t.dst)

\* IPv4 packet-ins for a destination outside 10.0.0.1-16 (10.0.0.99) and for
\* one inside, at a core, an aggregation and an edge switch
WlcStraySwitches == {1, 5, 13}
WlcStrayTraffic ==
    { [dpid |-> d, in_port |-> p, src |-> 1, dst |-> x] :
        d \in WlcStraySwitches, p \in {1, 3}, x \in {9, 99} }

NextWlcStray ==
    \/ \E dpid \in WlcStraySwitches : WlcSwitchFeatures(dpid)
    \/ \E t \in WlcStrayTraffic : WlcPacketIn(t.dpid, t.in_port, t.src, t.dst)

NextWLC ==
    \/ \E dpid \in WlcSwitches : WlcSwitchFeatures(dpid)
    \/ \E t \in WlcTraffic : WlcPacketIn(t.dpid, t.in_port, t.src, t.dst)
    \/ \E dpid \in WlcSwitches, port \in WlcPorts : WlcFlowRemoved(dpid, port)
    \/ \E dpid \in WlcSwitches, body \in StatBodies : WlcFlowStatsReply(dpid, body)

\* ========================================================================
\* fat_tree_no_loop.py : FatTreeNoLoop
\* ========================================================================
NlSwitches == {1, 5, 13}          \* one core, one aggregation, one edge switch
\* ARP packet-ins raised (opcode 1 = request, 2 = reply)
NlArps == { [dpid |-> 13, in_port |-> 1, src_ip |-> 1, dst_ip |-> 2, opcode |-> 1],
            [dpid |-> 5,  in_port |-> 1, src_ip |-> 1, dst_ip |-> 9, opcode |-> 1],
            [dpid |-> 5,  in_port |-> 3, src_ip |-> 1, dst_ip |-> 9, opcode |-> 1],
            [dpid |-> 1,  in_port |-> 1, src_ip |-> 1, dst_ip |-> 9, opcode |-> 1] }

\* arp_key = (dpid, src_ip, dst_ip, arp_pkt.opcode)
ArpKey(a) == <<a.dpid, a.src_ip, a.dst_ip, a.opcode>>

\* if len(self.handled_arps) > 100: self.handled_arps.clear()
ArpDedupBound == 100

\* handled_arps is a set of keys. Its members among the keys of NlArps are
\* kept as a set; of its other members (keys of ARP traffic between hosts
\* and switches that are not modelled) only the number is kept, which is
\* all the handler reads of them: membership of its own key, and len().
ArpSetSize(h) == Cardinality(h.keys) + h.others

ClearIfOverOrAt(h) ==
    IF ArpSetSize(h) >= ArpDedupBound THEN [keys |-> {}, others |-> 0] ELSE h
ClearIfOver(h) ==
    IF ArpSetSize(h) > ArpDedupBound THEN [keys |-> {}, others |-> 0] ELSE h

\* dst_ip.startswith('10.0.0.'); int(dst_ip.split('.')[-1]) is the ip itself
InNet10(ip) == 0 <= ip /\ ip <= 255

\* the port selection with an edge switch sending every frame from a host
\* to its uplinks
NlArpOutPortsUplinks(dpid, in_port, dst_ip) ==
    IF IsCore(dpid) THEN <<1, 2, 3, 4>>
    ELSE IF in_port <= 2 THEN <<3, 4>> ELSE <<1, 2>>

\* the output ports handle_arp determines, in order (before the ingress
\* port is filtered out)
NlArpOutPorts(dpid, in_port, dst_ip) ==
    IF IsEdge(dpid) THEN
        LET edge_num == dpid - 13
        IN  IF in_port <= 2
            THEN IF dst_ip = edge_num * 2 + 1 THEN <<1>>
                 ELSE IF dst_ip = edge_num * 2 + 2 THEN <<2>>
                 ELSE <<3, 4>>
            ELSE <<1, 2>>
    ELSE IF IsAgg(dpid) THEN
        IF in_port <= 2 THEN <<3, 4>> ELSE <<1, 2>>
    ELSE IF IsCore(dpid) THEN
        IF InNet10(dst_ip)
        THEN IF 1 <= dst_ip /\ dst_ip <= 16
             THEN << ((dst_ip - 1) \div 4) + 1 >>
             ELSE <<1, 2, 3, 4>>
        ELSE <<1, 2, 3, 4>>
    ELSE << >>

\* the sending loop without its test on the ingress port
SendToAll(ports, in_port) == ports

\* for port in out_ports: if port != in_port: send_msg(packet-out to port)
RECURSIVE SkipIngress(_, _)
SkipIngress(ports, in_port) ==
    IF ports = << >> THEN << >>
    ELSE IF Head(ports) # in_port
         THEN <<Head(ports)>> \o SkipIngress(Tail(ports), in_port)
         ELSE SkipIngress(Tail(ports), in_port)

\* nl_last, nl_prev: an ARP packet-in handled: its key, ingress port,
\* whether its key was in the set and the set's size before it, the output
\* ports determined for it (out_ports) and the output ports of the
\* packet-outs sent for it, in order
NlNoEvent == [ev |-> "none", key |-> << >>, dpid |-> 0, in_port |-> 0, dst_ip |-> 0,
              dup |-> FALSE, size_before |-> 0, sel |-> << >>, outs |-> << >>]

NlInit ==
    /\ handled_arps = [keys |-> {}, others |-> 0]
    /\ nl_arp_table = EmptyFn
    /\ nl_mac_to_port = EmptyFn
    /\ nl_last = NlNoEvent
    /\ nl_prev = NlNoEvent
    /\ nl_flows = EmptyFn

\* OFPMatch fields of the entries FatTreeNoLoop installs (0: wildcard), at a
\* priority
NlMatch(priority, eth_type, ipv4_dst, in_port, eth_dst, eth_src) ==
    [priority |-> priority, eth_type |-> eth_type, ipv4_dst |-> ipv4_dst,
     in_port |-> in_port, eth_dst |-> eth_dst, eth_src |-> eth_src]

\* a flow-mod ADD: the match and the output ports of its action list
NlMod(match, out_ports) == [match |-> match, actions |-> out_ports]

\* install_proactive_flows: the flow-mods it sends, in order
NlCoreMods ==
    [j \in 1..16 |->
        NlMod(NlMatch(100, ETH_TYPE_IP, j, 0, 0, 0), << ((j - 1) \div 4) + 1 >>)]

\* the aggregation rules with the pod taken as dpid - 5
NlAggModsPodPerSwitch(dpid) ==
    LET pod == (dpid - 5) % 4
    IN  [j \in 1..4 |->
            NlMod(NlMatch(100, ETH_TYPE_IP, pod * 4 + j, 0, 0, 0),
                  << ((j - 1) \div 2) + 1 >>)]
        \o << NlMod(NlMatch(50, ETH_TYPE_IP, 0, 0, 0, 0), <<3>>) >>

NlAggMods(dpid) ==
    LET pod == (dpid - 5) \div 2
    IN  [j \in 1..4 |->
            NlMod(NlMatch(100, ETH_TYPE_IP, pod * 4 + j, 0, 0, 0),
                  << ((j - 1) \div 2) + 1 >>)]
        \o << NlMod(NlMatch(50, ETH_TYPE_IP, 0, 0, 0, 0), <<3>>) >>

NlEdgeMods(dpid) ==
    LET edge_num == dpid - 13
    IN  [j \in 1..2 |->
            NlMod(NlMatch(100, ETH_TYPE_IP, edge_num * 2 + j, 0, 0, 0), <<j>>)]
        \o << NlMod(NlMatch(50, ETH_TYPE_IP, 0, 0, 0, 0), <<3>>) >>

install_proactive_flows(dpid) ==
    IF IsCore(dpid) THEN NlCoreMods
    ELSE IF IsAgg(dpid) THEN NlAggMods(dpid)
    ELSE IF IsEdge(dpid) THEN NlEdgeMods(dpid)
    ELSE << >>

\* the flow-mods of switch_features_handler after its delete-all: the IPv6
\* drop, the table-miss entry, the proactive entries
NlFeatureMods(dpid) ==
    << NlMod(NlMatch(200, ETH_TYPE_IPV6, 0, 0, 0, 0), << >>),
       NlMod(NlMatch(0, 0, 0, 0, 0, 0), <<OFPP_CONTROLLER>>) >>
    \o install_proactive_flows(dpid)

\* a switch applies flow-mod ADDs in order: an entry with the same match
\* and priority is replaced
RECURSIVE NlApplyMods(_, _)
NlApplyMods(table, mods) ==
    IF mods = << >> THEN table
    ELSE NlApplyMods([k \in DOMAIN table \cup {Head(mods).match} |->
                         IF k = Head(mods).match THEN Head(mods).actions
                         ELSE table[k]],
                     Tail(mods))

\* del_flow: a flow-mod DELETE (not strict) with a match, any out_port and
\* out_group
NlDelete(match) == [match |-> match, actions |-> << >>, command |-> "OFPFC_DELETE"]

\* a DELETE removes the entries whose match is covered by its match,
\* whatever their priority
NlCovers(m, k) ==
    /\ m.eth_type = 0 \/ m.eth_type = k.eth_type
    /\ m.ipv4_dst = 0 \/ m.ipv4_dst = k.ipv4_dst
    /\ m.in_port = 0 \/ m.in_port = k.in_port
    /\ m.eth_dst = 0 \/ m.eth_dst = k.eth_dst
    /\ m.eth_src = 0 \/ m.eth_src = k.eth_src

\* the messages of a handler that sends no delete-all
NlFeatureMsgsNoDelete(dpid) == NlFeatureMods(dpid)

\* the messages of switch_features_handler in the order sent: the
\* delete-all, then the flow-mod ADDs
NlFeatureMsgs(dpid) == << NlDelete(NlMatch(0, 0, 0, 0, 0, 0)) >> \o NlFeatureMods(dpid)

\* a switch applies the messages in order
RECURSIVE NlApplyMsgs(_, _)
NlApplyMsgs(table, msgs) ==
    IF msgs = << >> THEN table
    ELSE IF "command" \in DOMAIN Head(msgs)
    THEN NlApplyMsgs([k \in {j \in DOMAIN table : ~NlCovers(Head(msgs).match, j)} |->
                         table[k]],
                     Tail(msgs))
    ELSE NlApplyMsgs(NlApplyMods(table, << Head(msgs) >>), Tail(msgs))

\* switch_features_handler for a switch whose table is before
NlSwitchFeaturesHandler(dpid, before) ==
    /\ nl_mac_to_port' = IF dpid \in DOMAIN nl_mac_to_port THEN nl_mac_to_port
                         ELSE (dpid :> EmptyFn) @@ nl_mac_to_port
    /\ nl_flows' = [d \in DOMAIN nl_flows \cup {dpid} |->
                       IF d = dpid THEN NlApplyMsgs(before, NlFeatureMsgs(dpid))
                       ELSE nl_flows[d]]

NlSwitchFeatures(dpid) ==
    /\ NlSwitchFeaturesHandler(dpid, IF dpid \in DOMAIN nl_flows THEN nl_flows[dpid]
                                     ELSE EmptyFn)
    /\ UNCHANGED <<handled_arps, nl_arp_table, nl_last, nl_prev, faVars, wrrVars, lbVars, pinVars, arpVars, wlcVars, topoVars, natVars>>

\* packet_in_handler for an ARP frame (ethertype 0x0806), with handle_arp
NlArpPacketInHandler(a) ==
    /\ a.dpid \in DOMAIN nl_mac_to_port
    /\ nl_mac_to_port' = [nl_mac_to_port EXCEPT ![a.dpid] = (a.src_ip :> a.in_port) @@ @]
    /\ nl_arp_table' = (a.src_ip :> a.src_ip) @@ nl_arp_table
    /\ LET dup == ArpKey(a) \in handled_arps.keys
           sel == NlArpOutPorts(a.dpid, a.in_port, a.dst_ip)
       IN  /\ handled_arps' =
                IF dup THEN handled_arps
                ELSE ClearIfOver([handled_arps EXCEPT !.keys = @ \cup {ArpKey(a)}])
           /\ nl_last' = [ev |-> "arp", key |-> ArpKey(a), dpid |-> a.dpid,
                          in_port |-> a.in_port, dst_ip |-> a.dst_ip,
                          dup |-> dup, size_before |-> ArpSetSize(handled_arps),
                          sel |-> IF dup THEN << >> ELSE sel,
                          outs |-> IF dup THEN << >> ELSE SkipIngress(sel, a.in_port)]
           /\ nl_prev' = nl_last
    /\ UNCHANGED nl_flows

NlArpPacketIn(a) ==
    /\ NlArpPacketInHandler(a)
    /\ UNCHANGED <<faVars, wrrVars, lbVars, pinVars, arpVars, wlcVars, topoVars, natVars>>

\* the same handler for an ARP frame whose key is not one of NlArps: a key
\* not yet in the set (fresh), or one of the other keys already in it
NlOtherArpPacketIn(fresh) ==
    /\ DOMAIN nl_mac_to_port # {}
    /\ ~fresh => handled_arps.others > 0
    /\ handled_arps' =
         IF fresh THEN ClearIfOver([handled_arps EXCEPT !.others = @ + 1])
         ELSE handled_arps
    /\ nl_last' = [NlNoEvent EXCEPT !.ev = "arp_other", !.dup = ~fresh,
                                    !.size_before = ArpSetSize(handled_arps)]
    /\ nl_prev' = nl_last
    /\ UNCHANGED <<nl_arp_table, nl_mac_to_port, nl_flows, faVars, wrrVars, lbVars, pinVars, arpVars, wlcVars, topoVars, natVars>>

\* ---- FatTreeNoLoop: the flow tables of the k=4 fat tree ----
\* the 20 switches: core 1..4, aggregation 5..12, edge 13..20
NlFabric == 1..20
\* the switches connected at a time
MaxConnected == 2

\* a frame on the data plane: EtherType, addresses, and for IPv4 the
\* destination address (host n has MAC n and IP 10.0.0.n)
NlFrame(eth_type, eth_src, eth_dst, ipv4_dst) ==
    [eth_type |-> eth_type, eth_src |-> eth_src, eth_dst |-> eth_dst,
     ipv4_dst |-> ipv4_dst]

\* the non-ARP packet-ins raised at edge switch 13: its hosts 1 and 2 to
\* each other, host 1 to the remote host 9, host 9 (from uplink 3) to host 1
NlReactiveSwitch == 13
NlDataPacketIns ==
    { [in_port |-> 1, frame |-> NlFrame(ETH_TYPE_IP, 1, 2, 2)],
      [in_port |-> 2, frame |-> NlFrame(ETH_TYPE_IP, 2, 1, 1)],
      [in_port |-> 1, frame |-> NlFrame(ETH_TYPE_IP, 1, 9, 9)],
      [in_port |-> 3, frame |-> NlFrame(ETH_TYPE_IP, 9, 1, 1)] }

\* an entry matches a frame arriving on in_port
NlEntryMatches(k, in_port, f) ==
    /\ k.eth_type = 0 \/ k.eth_type = f.eth_type
    /\ k.ipv4_dst = 0 \/ (f.eth_type = ETH_TYPE_IP /\ k.ipv4_dst = f.ipv4_dst)
    /\ k.in_port = 0 \/ k.in_port = in_port
    /\ k.eth_dst = 0 \/ k.eth_dst = f.eth_dst
    /\ k.eth_src = 0 \/ k.eth_src = f.eth_src

\* the order in which a switch prefers matching entries
NlLowerPriority(j, k) == j.priority >= k.priority
NlHigherPriority(j, k) == j.priority <= k.priority

\* the entries that may handle a frame: the matching entries of highest
\* priority (which one, among several of equal priority, is not defined)
NlBestEntries(table, in_port, f) ==
    {k \in DOMAIN table :
        /\ NlEntryMatches(k, in_port, f)
        /\ \A j \in DOMAIN table :
              NlEntryMatches(j, in_port, f) => NlHigherPriority(j, k)}

\* packet_in_handler for a frame that is neither LLDP nor ARP: learn the
\* source, and for a known destination MAC install a priority-10 entry
\* (idle timeout 30) and send the packet-out
NlDataPacketInHandler(dpid, in_port, f) ==
    /\ dpid \in DOMAIN nl_mac_to_port
    /\ LET mtp == (f.eth_src :> in_port) @@ nl_mac_to_port[dpid]
       IN  /\ nl_mac_to_port' = [nl_mac_to_port EXCEPT ![dpid] = mtp]
           /\ nl_flows' =
                IF f.eth_dst \in DOMAIN mtp /\ mtp[f.eth_dst] # OFPP_CONTROLLER
                THEN [nl_flows EXCEPT ![dpid] =
                        NlApplyMods(@, << NlMod(NlMatch(10, 0, 0, in_port, f.eth_dst,
                                                        f.eth_src),
                                                << mtp[f.eth_dst] >>) >>)]
                ELSE nl_flows
    /\ UNCHANGED <<handled_arps, nl_arp_table, nl_last, nl_prev>>

NlDataPacketIn(dpid, in_port, f) ==
    /\ NlDataPacketInHandler(dpid, in_port, f)
    /\ UNCHANGED <<faVars, wrrVars, lbVars, pinVars, arpVars, wlcVars, topoVars, natVars>>

\* an entry with an idle timeout expires and the switch removes it
NlIdleExpire(dpid, k) ==
    /\ dpid \in DOMAIN nl_flows
    /\ k \in DOMAIN nl_flows[dpid]
    /\ k.priority = 10
    /\ nl_flows' = [nl_flows EXCEPT ![dpid] = [j \in DOMAIN @ \ {k} |-> @[j]]]
    /\ UNCHANGED <<handled_arps, nl_arp_table, nl_mac_to_port, nl_last, nl_prev, faVars,
                   wrrVars, lbVars, pinVars, arpVars, wlcVars, topoVars, natVars>>

\* what the table of a switch may hold when it connects for the first
\* time: nothing, or entries another controller left behind
NlStaleTables ==
    { EmptyFn,
      NlApplyMods(EmptyFn, << NlMod(NlMatch(300, ETH_TYPE_IP, 0, 0, 0, 0), <<4>>),
                              NlMod(NlMatch(50, ETH_TYPE_IP, 0, 0, 0, 0), <<4>>),
                              NlMod(NlMatch(0, 0, 0, 0, 0, 0), << >>) >>) }

\* switch_features_handler for a switch that connects, for the first time
\* or again; nl_last records the run and the table it found
NlConnect(dpid, before) ==
    /\ NlSwitchFeaturesHandler(dpid, before)
    /\ nl_last' = [ev |-> "features", dpid |-> dpid, before |-> before]
    /\ nl_prev' = nl_last
    /\ UNCHANGED <<handled_arps, nl_arp_table, faVars, wrrVars, lbVars, pinVars, arpVars,
                   wlcVars, topoVars, natVars>>

NextReconnect ==
    \/ \E dpid \in NlFabric, t \in NlStaleTables :
           /\ DOMAIN nl_flows = {}
           /\ NlConnect(dpid, t)
    \/ \E dpid \in DOMAIN nl_flows : NlConnect(dpid, nl_flows[dpid])
    \/ \E e \in NlDataPacketIns :
           /\ NlReactiveSwitch \in DOMAIN nl_flows
           /\ NlDataPacketIn(NlReactiveSwitch, e.in_port, e.frame)
    \/ \E k \in {NlMatch(10, 0, 0, e.in_port, e.frame.eth_dst, e.frame.eth_src)
                    : e \in NlDataPacketIns} :
           NlIdleExpire(NlReactiveSwitch, k)

NextFlows ==
    \/ \E dpid \in NlFabric :
           /\ dpid \notin DOMAIN nl_flows
           /\ Cardinality(DOMAIN nl_flows) < MaxConnected
           /\ NlSwitchFeatures(dpid)
    \/ \E e \in NlDataPacketIns :
           /\ NlReactiveSwitch \in DOMAIN nl_flows
           /\ NlDataPacketIn(NlReactiveSwitch, e.in_port, e.frame)
    \/ \E k \in {NlMatch(10, 0, 0, e.in_port, e.frame.eth_dst, e.frame.eth_src)
                    : e \in NlDataPacketIns} :
           NlIdleExpire(NlReactiveSwitch, k)

\* (each switch connects once)
NextNoLoop ==
    \/ \E dpid \in NlSwitches : dpid \notin DOMAIN nl_mac_to_port /\ NlSwitchFeatures(dpid)
    \/ \E a \in NlArps : NlArpPacketIn(a)
    \/ \E fresh \in BOOLEAN : NlOtherArpPacketIn(fresh)

\* ------------------------------------------------------------------------
\* WRRController: datapath lifecycle, topology and ECMP shortest paths
\* (src/controllers/wrr.py)
\* ------------------------------------------------------------------------
TopoSwitches == {1, 2, 3, 4}

\* the physical links of a four-switch fabric: the ring 1-2-4-3-1, with two
\* equal-cost paths between opposite switches and, between adjacent ones,
\* a longer way round
TopoLinks ==
    { [src |-> 1, src_port |-> 1, dst |-> 2, dst_port |-> 1],
      [src |-> 1, src_port |-> 2, dst |-> 3, dst_port |-> 1],
      [src |-> 2, src_port |-> 2, dst |-> 4, dst_port |-> 1],
      [src |-> 3, src_port |-> 2, dst |-> 4, dst_port |-> 2] }

\* the switches whose disconnect and reconnect are explored, and the links
\* the topology service may lose again
TopoFlapping == {2}
TopoLossy    == {l \in TopoLinks : l.src = 3 /\ l.dst = 4}

\* the (src, dst) pairs ecmp_paths is called with
EcmpQueries == {<<1, 4>>, <<1, 2>>, <<1, 1>>}

\* adj.get(node, {}) in iteration order
Nbrs(a, node) == IF node \in DOMAIN a THEN a[node] ELSE << >>

\* row[nbr] = port on an insertion-ordered dict
SetNbr(row, nbr, port) ==
    IF \E i \in 1..Len(row) : row[i].nbr = nbr
    THEN [i \in 1..Len(row) |->
            IF row[i].nbr = nbr THEN [nbr |-> nbr, port |-> port] ELSE row[i]]
    ELSE Append(row, [nbr |-> nbr, port |-> port])

\* a.setdefault(d, {})[nbr] = port
AdjSet(a, d, nbr, port) ==
    [x \in DOMAIN a \cup {d} |->
        IF x = d THEN SetNbr(Nbrs(a, d), nbr, port) ELSE a[x]]

\* the two assignments made for a link
AddLink(a, l) ==
    AdjSet(AdjSet(a, l.src, l.dst, l.src_port), l.dst, l.src, l.dst_port)

\* the assignments a list of links makes, in order: for each link the one
\* to the row of its source, then the one to the row of its destination
LinkAssignmentsOneWay(links) ==
    [i \in 1..Len(links) |->
        [row |-> links[i].src, nbr |-> links[i].dst, port |-> links[i].src_port]]
LinkAssignments(links) ==
    [i \in 1..(2 * Len(links)) |->
        LET l == links[(i + 1) \div 2]
        IN  IF i % 2 = 1 THEN [row |-> l.src, nbr |-> l.dst, port |-> l.src_port]
            ELSE [row |-> l.dst, nbr |-> l.src, port |-> l.dst_port]]

\* a row after the assignments made to it
RECURSIVE RowAfter(_, _)
RowAfter(row, assignments) ==
    IF assignments = << >> THEN row
    ELSE RowAfter(SetNbr(row, Head(assignments).nbr, Head(assignments).port),
                  Tail(assignments))

\* for l in links: the two assignments of each link, in order (an
\* assignment touches one row, so each row is built from its own)
AddLinks(a, links) ==
    [d \in DOMAIN a \cup {LinkAssignments(links)[i].row :
                              i \in DOMAIN LinkAssignments(links)} |->
        RowAfter(Nbrs(a, d), SelectSeq(LinkAssignments(links), LAMBDA e : e.row = d))]

\* the topology service's link table: an insertion-ordered dict
Discover(links, l) ==
    IF \E i \in 1..Len(links) : links[i] = l THEN links ELSE Append(links, l)

Forget(links, l) == SelectSeq(links, LAMBDA x : x # l)

InPath(path, n) == \E i \in 1..Len(path) : path[i] = n

\* shortest_depth = None
NoDepth == -1

SetDepth(visited_depth, n, d) ==
    [x \in DOMAIN visited_depth \cup {n} |-> IF x = n THEN d ELSE visited_depth[x]]

\* prev is None or nd <= prev
MayVisitStrict(visited_depth, nbr, nd) ==
    nbr \notin DOMAIN visited_depth \/ nd < visited_depth[nbr]

MayVisit(visited_depth, nbr, nd) ==
    nbr \notin DOMAIN visited_depth \/ nd <= visited_depth[nbr]

\* the for-loop over the neighbours of the node a path ends in
RECURSIVE EcmpNbrLoop(_, _, _, _, _)
EcmpNbrLoop(row, i, path, queue, visited_depth) ==
    IF i > Len(row) THEN [queue |-> queue, visited_depth |-> visited_depth]
    ELSE LET nbr == row[i].nbr
             nd  == (Len(path) - 1) + 1
         IN  IF InPath(path, nbr)
             THEN EcmpNbrLoop(row, i + 1, path, queue, visited_depth)
             ELSE IF MayVisit(visited_depth, nbr, nd)
                  THEN EcmpNbrLoop(row, i + 1, path, Append(queue, Append(path, nbr)),
                                   SetDepth(visited_depth, nbr, nd))
                  ELSE EcmpNbrLoop(row, i + 1, path, queue, visited_depth)

\* the while-loop without the depth cut and without the visited-depth record
RECURSIVE EcmpLoopNoCut(_, _, _, _, _, _)
EcmpLoopNoCut(a, dst, queue, paths, visited_depth, shortest_depth) ==
    IF queue = << >> THEN paths
    ELSE LET path == Head(queue)
             node == path[Len(path)]
         IN  IF node = dst
             THEN EcmpLoopNoCut(a, dst, Tail(queue), Append(paths, path),
                                visited_depth, Len(path) - 1)
             ELSE LET r == EcmpNbrLoop(Nbrs(a, node), 1, path, Tail(queue), EmptyFn)
                  IN  EcmpLoopNoCut(a, dst, r.queue, paths, visited_depth, shortest_depth)

\* the while-loop over the queue of partial paths
RECURSIVE EcmpLoop(_, _, _, _, _, _)
EcmpLoop(a, dst, queue, paths, visited_depth, shortest_depth) ==
    IF queue = << >> THEN paths
    ELSE LET path  == Head(queue)
             node  == path[Len(path)]
             depth == Len(path) - 1
         IN  IF shortest_depth # NoDepth /\ depth > shortest_depth
             THEN EcmpLoop(a, dst, Tail(queue), paths, visited_depth, shortest_depth)
             ELSE IF node = dst
                  THEN EcmpLoop(a, dst, Tail(queue), Append(paths, path),
                                visited_depth, depth)
                  ELSE LET r == EcmpNbrLoop(Nbrs(a, node), 1, path, Tail(queue),
                                            visited_depth)
                       IN  EcmpLoop(a, dst, r.queue, paths, r.visited_depth,
                                    shortest_depth)

CachePut(cache, key, ps) ==
    [k \in DOMAIN cache \cup {key} |-> IF k = key THEN ps ELSE cache[k]]

\* ecmp_paths(src, dst): the paths returned and the cache left behind
ecmp_paths(a, cache, src, dst) ==
    LET key == <<src, dst>>
    IN  IF key \in DOMAIN cache
        THEN [paths |-> cache[key], cache |-> cache, hit |-> TRUE]
        ELSE LET ps == IF src = dst THEN << <<src>> >>
                       ELSE EcmpLoop(a, dst, << <<src>> >>, << >>,
                                     [x \in {src} |-> 0], NoDepth)
             IN  [paths |-> ps, cache |-> CachePut(cache, key, ps), hit |-> FALSE]

\* first_shortest_path: ps[0] if ps else None (None is << >>)
first_shortest_path(a, cache, src, dst) ==
    LET r == ecmp_paths(a, cache, src, dst)
    IN  [path |-> IF r.paths # << >> THEN r.paths[1] ELSE << >>, cache |-> r.cache]

\* no install_nat_path call in the handler that ran last
NoInstall == [ev |-> "none", client_ip |-> 0, client_mac |-> 0, path |-> << >>,
              src_port |-> 0, real_srv_ip |-> 0, srv_port |-> 0, srv_mac |-> 0]

NoCall == [ev |-> "none", src |-> 0, dst |-> 0, paths |-> << >>, hit |-> FALSE]

\* self.paths_cache.clear(), and a handler that leaves the cache as it is
KeepCache(cache) == cache
ClearCache(cache) == EmptyFn

TopoInit ==
    /\ datapaths = {}
    /\ adj = EmptyFn
    /\ paths_cache = EmptyFn
    /\ topo_links = << >>
    /\ ecmp_last = NoCall

\* _state_change_handler, MAIN_DISPATCHER
StateChangeMain(dpid) ==
    /\ datapaths' = datapaths \cup {dpid}
    /\ ecmp_last' = NoCall
    /\ UNCHANGED <<adj, paths_cache, topo_links, wrrVars, lbVars, pinVars, arpVars, wlcVars, nlVars, faVars,
                   hosts, flows, wire, nat_last, nat_chosen, nat_up, nat_pending>>
    /\ nat_install' = NoInstall

\* _state_change_handler, DEAD_DISPATCHER
StateChangeDead(dpid) ==
    /\ datapaths' = datapaths \ {dpid}
    /\ adj' = [x \in DOMAIN adj \ {dpid} |-> adj[x]]
    /\ paths_cache' = ClearCache(paths_cache)
    /\ ecmp_last' = [NoCall EXCEPT !.ev = "dead", !.src = dpid, !.dst = dpid]
    /\ UNCHANGED <<topo_links, wrrVars, lbVars, pinVars, arpVars, wlcVars, nlVars, faVars,
                   hosts, flows, wire, nat_last, nat_chosen, nat_up, nat_pending>>
    /\ nat_install' = NoInstall

\* the topology service discovers a link; handle_link_add
LinkAdd(l) ==
    /\ topo_links' = Discover(topo_links, l)
    /\ adj' = AddLink(adj, l)
    /\ paths_cache' = ClearCache(paths_cache)
    /\ ecmp_last' = NoCall
    /\ UNCHANGED <<datapaths, wrrVars, lbVars, pinVars, arpVars, wlcVars, nlVars, faVars,
                   hosts, flows, wire, nat_last, nat_chosen, nat_up, nat_pending>>
    /\ nat_install' = NoInstall

\* the topology service drops a link; the controller has no handler for it
LinkDelete(l) ==
    /\ \E i \in 1..Len(topo_links) : topo_links[i] = l
    /\ topo_links' = Forget(topo_links, l)
    /\ ecmp_last' = NoCall
    /\ UNCHANGED <<datapaths, adj, paths_cache, wrrVars, lbVars, pinVars, arpVars, wlcVars, nlVars, faVars,
                   hosts, flows, wire, nat_last, nat_chosen, nat_up, nat_pending>>
    /\ nat_install' = NoInstall

\* handle_switch_enter: _build_topology over get_all_link
SwitchEnter ==
    /\ adj' = AddLinks(EmptyFn, topo_links)
    /\ paths_cache' = ClearCache(paths_cache)
    /\ ecmp_last' = NoCall
    /\ UNCHANGED <<datapaths, topo_links, wrrVars, lbVars, pinVars, arpVars, wlcVars, nlVars, faVars,
                   hosts, flows, wire, nat_last, nat_chosen, nat_up, nat_pending>>
    /\ nat_install' = NoInstall

\* a call of ecmp_paths(src, dst)
EcmpPathsCall(src, dst) ==
    LET r == ecmp_paths(adj, paths_cache, src, dst)
    IN  /\ paths_cache' = r.cache
        /\ ecmp_last' = [ev |-> "ecmp", src |-> src, dst |-> dst,
                         paths |-> r.paths, hit |-> r.hit]
        /\ UNCHANGED <<datapaths, adj, topo_links, wrrVars, lbVars, pinVars, arpVars, wlcVars, nlVars, faVars,
                       hosts, flows, wire, nat_last, nat_chosen, nat_up, nat_pending>>
        /\ nat_install' = NoInstall

\* ---- the k=4 fat tree of FatTreeFixed ----
\* its switch-to-switch links in the order build() adds them: aggregation to
\* edge (pod, aggregation offset, edge offset), then core to aggregation
\* (core index, pod). Mininet numbers the ports of a switch in the order
\* its links are added: an edge switch has its hosts on ports 1-2 and the
\* aggregation switches on 3-4; an aggregation switch its edges on 1-2 and
\* its cores on 3-4; a core switch the pods on 1-4.
FatAggEdgeLink(pod, a_offset, e_offset) ==
    [src |-> 5 + pod * 2 + a_offset, src_port |-> e_offset + 1,
     dst |-> 13 + pod * 2 + e_offset, dst_port |-> 2 + a_offset + 1]
FatCoreAggLink(c_idx, pod) ==
    [src |-> c_idx + 1, src_port |-> pod + 1,
     dst |-> 5 + pod * 2 + (c_idx % 2), dst_port |-> 3 + (c_idx \div 2)]
FatLinkSeq ==
    [i \in 1..16 |-> FatAggEdgeLink((i - 1) \div 4, ((i - 1) % 4) \div 2, (i - 1) % 2)]
    \o [i \in 1..16 |-> FatCoreAggLink((i - 1) \div 4, (i - 1) % 4)]

\* the orders in which the topology service may hold the links: the order
\* of build(), started at any link
Rotate(q, r) == [i \in 1..Len(q) |-> q[((i - 1 + r) % Len(q)) + 1]]
FatLinkOrders == {Rotate(FatLinkSeq, r) : r \in 0..(Len(FatLinkSeq) - 1)}

\* the (src, dst) pairs ecmp_paths is called with on the fat tree: edge
\* switches of different pods, of one pod, and a switch with itself
FatQueries == {<<13, 17>>, <<17, 13>>, <<13, 14>>, <<13, 20>>, <<13, 13>>}

\* every switch connected, every link discovered, nothing built yet
FatInit ==
    /\ datapaths = NlFabric
    /\ adj = EmptyFn
    /\ paths_cache = EmptyFn
    /\ topo_links \in FatLinkOrders
    /\ ecmp_last = NoCall

NextFat ==
    \/ SwitchEnter
    \/ \E q \in FatQueries : EcmpPathsCall(q[1], q[2])

NextTopo ==
    \/ \E dpid \in TopoFlapping : StateChangeMain(dpid)
    \/ \E dpid \in TopoFlapping : StateChangeDead(dpid)
    \/ \E l \in TopoLinks : LinkAdd(l)
    \/ \E l \in TopoLossy : LinkDelete(l)
    \/ SwitchEnter
    \/ \E q \in EcmpQueries : EcmpPathsCall(q[1], q[2])

\* ------------------------------------------------------------------------
\* WRRController: host registry, path installation and packet-in handling
\* (src/controllers/wrr.py), with the switches' flow tables and one packet
\* in flight on the fabric
\* ------------------------------------------------------------------------
VIP_IP  == 100        \* 10.0.0.100
VIP_MAC == 256        \* 00:00:00:00:01:00
NatPriority   == 30
PlainPriority == 20

\* SERVER_LIST and WEIGHTS (10.0.0.1, 10.0.0.2, 10.0.0.3)
SERVER_LIST == <<1, 2, 3>>
WEIGHTS     == <<3, 2, 1>>

\* the fabric: switches 1 and 2, linked by their ports 1
NatSwitches == {1, 2}
NatLinkSeq ==
    << [src |-> 1, src_port |-> 1, dst |-> 2, dst_port |-> 1] >>

\* the hosts: the client 10.0.0.9 on switch 1; backend 10.0.0.1 on switch 2;
\* backend 10.0.0.2 on the client's switch; backend 10.0.0.3 on switch 2.
\* Host n has MAC n.
ClientIp == 9
NatHostAt ==
    [h \in {9, 1, 2, 3} |->
        CASE h = 9 -> [dpid |-> 1, port |-> 3]
          [] h = 1 -> [dpid |-> 2, port |-> 3]
          [] h = 2 -> [dpid |-> 1, port |-> 4]
          [] h = 3 -> [dpid |-> 2, port |-> 4]]

\* the backends that may be up; in one behaviour exactly one of them is up
\* and sends (and so can be learned), 10.0.0.3 is always silent
NatTalkers == {1, 2}

\* a packet: its IPv4 and Ethernet addresses, and the host that sent it
NoPkt == [src |-> 0, dst |-> 0, eth_src |-> 0, eth_dst |-> 0, origin |-> 0]
NoPacket == [at |-> "none", dpid |-> 0, in_port |-> 0, pkt |-> NoPkt]
NoDelivery == [host |-> 0, pkt |-> NoPkt]

\* what is plugged into a switch port
Attached(dpid, port) ==
    IF \E i \in 1..Len(NatLinkSeq) :
           NatLinkSeq[i].src = dpid /\ NatLinkSeq[i].src_port = port
    THEN LET l == NatLinkSeq[CHOOSE i \in 1..Len(NatLinkSeq) :
                       NatLinkSeq[i].src = dpid /\ NatLinkSeq[i].src_port = port]
         IN  [kind |-> "switch", dpid |-> l.dst, port |-> l.dst_port]
    ELSE IF \E i \in 1..Len(NatLinkSeq) :
           NatLinkSeq[i].dst = dpid /\ NatLinkSeq[i].dst_port = port
    THEN LET l == NatLinkSeq[CHOOSE i \in 1..Len(NatLinkSeq) :
                       NatLinkSeq[i].dst = dpid /\ NatLinkSeq[i].dst_port = port]
         IN  [kind |-> "switch", dpid |-> l.src, port |-> l.src_port]
    ELSE IF \E h \in DOMAIN NatHostAt : NatHostAt[h] = [dpid |-> dpid, port |-> port]
    THEN [kind |-> "host",
          dpid |-> CHOOSE h \in DOMAIN NatHostAt : NatHostAt[h] = [dpid |-> dpid, port |-> port],
          port |-> 0]
    ELSE [kind |-> "none", dpid |-> 0, port |-> 0]

PhysPorts(dpid) == {q \in 1..4 : Attached(dpid, q).kind # "none"}

\* a packet leaves a switch by a port: where it is next, whom it reaches
Emit(dpid, port, pkt) ==
    LET a == Attached(dpid, port)
    IN  CASE a.kind = "switch" ->
               [wire |-> [at |-> "switch", dpid |-> a.dpid, in_port |-> a.port, pkt |-> pkt],
                delivered |-> NoDelivery]
          [] a.kind = "host" ->
               [wire |-> NoPacket, delivered |-> [host |-> a.dpid, pkt |-> pkt]]
          [] OTHER -> [wire |-> NoPacket, delivered |-> NoDelivery]

\* OFPMatch(eth_type=IP, ipv4_src, ipv4_dst) at a priority
Match(priority, src, dst) == [priority |-> priority, ipv4_src |-> src, ipv4_dst |-> dst]

\* an action list: the set-field actions (0: absent), then the output
Actions(set_ipv4_src, set_ipv4_dst, set_eth_src, set_eth_dst, out_port) ==
    [set_ipv4_src |-> set_ipv4_src, set_ipv4_dst |-> set_ipv4_dst,
     set_eth_src |-> set_eth_src, set_eth_dst |-> set_eth_dst, out_port |-> out_port]

Output(out_port) == Actions(0, 0, 0, 0, out_port)

\* add_flow: an OFPFC_ADD replaces the entry with the same match and priority;
\* a switch that is not registered gets nothing
AddFlow(tables, dpid, match, actions) ==
    [tables EXCEPT ![dpid] =
        [k \in DOMAIN tables[dpid] \cup {match} |->
            IF k = match THEN actions ELSE tables[dpid][k]]]

\* self.adj[dpid].get(next_dpid): 0 is None
PortToward(a, dpid, next_dpid) ==
    IF \E i \in 1..Len(Nbrs(a, dpid)) : Nbrs(a, dpid)[i].nbr = next_dpid
    THEN Nbrs(a, dpid)[CHOOSE i \in 1..Len(Nbrs(a, dpid)) :
                          Nbrs(a, dpid)[i].nbr = next_dpid].port
    ELSE 0

Reverse(q) == [i \in 1..Len(q) |-> q[Len(q) + 1 - i]]

\* the flow tables while an install runs, and whether it has raised
\* (self.adj[dpid] for a dpid without a row is a KeyError, which ends the
\* handler; the flow-mods already sent stay)
Running(tables) == [tables |-> tables, raised |-> FALSE]
Raised(st) == [st EXCEPT !.raised = TRUE]
WithFlow(st, dpid, match, actions) ==
    [st EXCEPT !.tables = AddFlow(st.tables, dpid, match, actions)]

\* install_nat_path, forward loop: the iteration for path[i]
NatForwardHop(st, dps, a, c, i) ==
    LET dpid == c.path[i]
    IN  IF dpid \notin dps THEN st
        ELSE IF dpid = c.path[Len(c.path)]
        THEN WithFlow(st, dpid, Match(NatPriority, c.client_ip, VIP_IP),
                      Actions(0, c.real_srv_ip, 0, c.srv_mac, c.srv_port))
        ELSE IF dpid \notin DOMAIN a THEN Raised(st)
        ELSE LET out_port == PortToward(a, dpid, c.path[i + 1])
             IN  IF out_port = 0 THEN st
                 ELSE WithFlow(st, dpid, Match(NatPriority, c.client_ip, VIP_IP),
                               Output(out_port))

RECURSIVE NatForwardLoop(_, _, _, _, _)
NatForwardLoop(st, dps, a, c, i) ==
    IF i > Len(c.path) \/ st.raised THEN st
    ELSE NatForwardLoop(NatForwardHop(st, dps, a, c, i), dps, a, c, i + 1)

\* the match of every reverse rule
NatReverseMatch(c) == Match(NatPriority, c.real_srv_ip, c.client_ip)

\* the reverse iteration with the test for the client's hop made first
NatReverseHopClientFirst(st, dps, a, c, rev, i) ==
    LET dpid == rev[i]
    IN  IF dpid \notin dps THEN st
        ELSE IF dpid = rev[Len(rev)]
        THEN WithFlow(st, dpid, NatReverseMatch(c),
                      Actions(0, 0, VIP_MAC, c.client_mac, c.src_port))
        ELSE IF dpid \notin DOMAIN a THEN Raised(st)
        ELSE LET out_port == PortToward(a, dpid, rev[i + 1])
             IN  IF out_port = 0 THEN st
                 ELSE WithFlow(st, dpid, NatReverseMatch(c),
                               IF i = 1 THEN Actions(VIP_IP, 0, VIP_MAC, 0, out_port)
                               ELSE Output(out_port))

\* install_nat_path, reverse loop: the iteration for rev[i]
NatReverseHop(st, dps, a, c, rev, i) ==
    LET dpid == rev[i]
    IN  IF dpid \notin dps THEN st
        ELSE IF dpid = rev[1]
        THEN IF Len(rev) >= 2 /\ dpid \notin DOMAIN a THEN Raised(st)
             ELSE LET out_port == IF Len(rev) >= 2 THEN PortToward(a, dpid, rev[2])
                                  ELSE c.src_port
                  IN  IF out_port = 0 THEN st
                      ELSE WithFlow(st, dpid, NatReverseMatch(c),
                                    Actions(VIP_IP, 0, VIP_MAC, 0, out_port))
        ELSE IF dpid = rev[Len(rev)]
        THEN WithFlow(st, dpid, NatReverseMatch(c),
                      Actions(0, 0, VIP_MAC, c.client_mac, c.src_port))
        ELSE IF dpid \notin DOMAIN a THEN Raised(st)
        ELSE LET out_port == PortToward(a, dpid, rev[i + 1])
             IN  IF out_port = 0 THEN st
                 ELSE WithFlow(st, dpid, NatReverseMatch(c), Output(out_port))

RECURSIVE NatReverseLoop(_, _, _, _, _, _)
NatReverseLoop(st, dps, a, c, rev, i) ==
    IF i > Len(rev) \/ st.raised THEN st
    ELSE NatReverseLoop(NatReverseHop(st, dps, a, c, rev, i), dps, a, c, rev, i + 1)

install_nat_path(tables, dps, a, c) ==
    IF c.path = << >> THEN Running(tables)
    ELSE NatReverseLoop(NatForwardLoop(Running(tables), dps, a, c, 1),
                        dps, a, c, Reverse(c.path), 1)

\* install_plain_path: one of its two loops, over path p toward end_port
RECURSIVE PlainLoop(_, _, _, _, _, _, _, _)
PlainLoop(st, dps, a, src_ip, dst_ip, p, end_port, i) ==
    IF i > Len(p) \/ st.raised THEN st
    ELSE LET dpid == p[i]
             next == IF dpid \notin dps THEN st
                     ELSE IF dpid = p[Len(p)]
                     THEN WithFlow(st, dpid, Match(PlainPriority, src_ip, dst_ip),
                                   Output(end_port))
                     ELSE IF dpid \notin DOMAIN a THEN Raised(st)
                     ELSE IF PortToward(a, dpid, p[i + 1]) = 0 THEN st
                     ELSE WithFlow(st, dpid, Match(PlainPriority, src_ip, dst_ip),
                                   Output(PortToward(a, dpid, p[i + 1])))
         IN  PlainLoop(next, dps, a, src_ip, dst_ip, p, end_port, i + 1)

install_plain_path(tables, dps, a, src_ip, dst_ip, path, src_port, dst_port) ==
    IF path = << >> THEN Running(tables)
    ELSE PlainLoop(PlainLoop(Running(tables), dps, a, src_ip, dst_ip, path, dst_port, 1),
                   dps, a, dst_ip, src_ip, Reverse(path), src_port, 1)

\* next_hop_port: 0 is None, and a KeyError on self.adj[start_dpid] ends the
\* handler before its packet-out, which leaves nothing sent either
next_hop_port(a, start_dpid, path, start_port, end_port) ==
    IF path = << >> THEN 0
    ELSE IF start_dpid = path[Len(path)] THEN end_port
    ELSE IF start_dpid # path[1] THEN 0
    ELSE IF Len(path) = 1 THEN end_port
    ELSE PortToward(a, start_dpid, path[2])

\* what a handler run sends back: nothing, a packet-out to one port of a
\* switch, or a packet-out with the FLOOD action
NoOut == [kind |-> "none", dpid |-> 0, port |-> 0]
OutPort(dpid, port) ==
    IF port = 0 THEN NoOut ELSE [kind |-> "port", dpid |-> dpid, port |-> port]
Flood(dpid) == [kind |-> "flood", dpid |-> dpid, port |-> 0]

Learn(h, ip, dpid, port, mac) ==
    [x \in DOMAIN h \cup {ip} |->
        IF x = ip THEN [dpid |-> dpid, port |-> port, mac |-> mac] ELSE h[x]]

\* what a handler run leaves: the registry, the WRR cursor, the path cache,
\* the flow tables, the packet-out and the install_nat_path call it made
Outcome(h, idx, cw, cache, tables, out, install) ==
    [hosts |-> h, idx |-> idx, cw |-> cw, cache |-> cache, flows |-> tables,
     out |-> out, install |-> install]

\* the arguments of the install_nat_path call
NatCall(pkt, cli, srv_ip, srv, path) ==
    [ev |-> "nat", client_ip |-> pkt.src, client_mac |-> cli.mac, path |-> path,
     src_port |-> cli.port, real_srv_ip |-> srv_ip, srv_port |-> srv.port,
     srv_mac |-> srv.mac]

\* traffic to the VIP, from install_nat_path on; st is what the install left
VipInstalled(h, sel, r, c, st) ==
    Outcome(h, sel.idx, sel.cw, r.cache, st.tables,
            IF st.raised THEN NoOut
            ELSE OutPort(h[c.client_ip].dpid,
                         next_hop_port(adj, h[c.client_ip].dpid, c.path,
                                       c.src_port, c.srv_port)),
            c)

VipInstall(h, sel, r, c) ==
    VipInstalled(h, sel, r, c, install_nat_path(flows, datapaths, adj, c))

\* traffic to the VIP, from the first path lookup (r1) on
VipRouted(dpid, pkt, h, sel, r1) ==
    IF r1.path = << >>
    THEN Outcome(h, sel.idx, sel.cw, r1.cache, flows, Flood(dpid), NoInstall)
    ELSE IF r1.path[1] # h[pkt.src].dpid
    THEN VipInstall(h, sel, first_shortest_path(adj, r1.cache, h[pkt.src].dpid,
                                                h[sel.srv].dpid),
                    NatCall(pkt, h[pkt.src], sel.srv, h[sel.srv],
                            first_shortest_path(adj, r1.cache, h[pkt.src].dpid,
                                                h[sel.srv].dpid).path))
    ELSE VipInstall(h, sel, r1, NatCall(pkt, h[pkt.src], sel.srv, h[sel.srv], r1.path))

\* traffic to the VIP, from the server selection (sel) on
VipSelected(dpid, pkt, h, sel) ==
    IF sel.srv \notin DOMAIN h
    THEN Outcome(h, sel.idx, sel.cw, paths_cache, flows, Flood(dpid), NoInstall)
    ELSE VipRouted(dpid, pkt, h, sel,
                   first_shortest_path(adj, paths_cache, dpid, h[sel.srv].dpid))

\* _packet_in_handler for an IPv4 packet, traffic to the VIP
HandleVip(dpid, pkt, h) ==
    VipSelected(dpid, pkt, h, WrrLoop(current_index, current_weight))

\* host-to-host traffic, from install_plain_path on
DirectInstalled(h, pkt, r, st) ==
    Outcome(h, current_index, current_weight, r.cache, st.tables,
            IF st.raised THEN NoOut
            ELSE OutPort(h[pkt.src].dpid,
                         next_hop_port(adj, h[pkt.src].dpid, r.path,
                                       h[pkt.src].port, h[pkt.dst].port)),
            NoInstall)

DirectInstall(h, pkt, r) ==
    DirectInstalled(h, pkt, r,
                    install_plain_path(flows, datapaths, adj, pkt.src, pkt.dst, r.path,
                                       h[pkt.src].port, h[pkt.dst].port))

\* host-to-host traffic, from the first path lookup (r1) on
DirectRouted(dpid, pkt, h, r1) ==
    IF r1.path = << >>
    THEN Outcome(h, current_index, current_weight, r1.cache, flows, Flood(dpid),
                 NoInstall)
    ELSE IF r1.path[1] # h[pkt.src].dpid
    THEN DirectInstall(h, pkt, first_shortest_path(adj, r1.cache, h[pkt.src].dpid,
                                                   h[pkt.dst].dpid))
    ELSE DirectInstall(h, pkt, r1)

\* _packet_in_handler for an IPv4 packet, host-to-host traffic
HandleDirect(dpid, pkt, h) ==
    IF pkt.dst \notin DOMAIN h
    THEN Outcome(h, current_index, current_weight, paths_cache, flows, Flood(dpid),
                 NoInstall)
    ELSE DirectRouted(dpid, pkt, h,
                      first_shortest_path(adj, paths_cache, dpid, h[pkt.dst].dpid))

\* _packet_in_handler for an IPv4 packet, from the host learning on
HandleIp(dpid, pkt, h) ==
    IF pkt.dst = VIP_IP THEN HandleVip(dpid, pkt, h) ELSE HandleDirect(dpid, pkt, h)

PacketInHandler(dpid, in_port, pkt) ==
    HandleIp(dpid, pkt, Learn(hosts, pkt.src, dpid, in_port, pkt.eth_src))

\* the set-field actions of an entry applied to a packet
ApplyActions(pkt, act) ==
    [src     |-> IF act.set_ipv4_src # 0 THEN act.set_ipv4_src ELSE pkt.src,
     dst     |-> IF act.set_ipv4_dst # 0 THEN act.set_ipv4_dst ELSE pkt.dst,
     eth_src |-> IF act.set_eth_src # 0 THEN act.set_eth_src ELSE pkt.eth_src,
     eth_dst |-> IF act.set_eth_dst # 0 THEN act.set_eth_dst ELSE pkt.eth_dst,
     origin  |-> pkt.origin]

\* the entries of a table a packet matches
Matching(table, pkt) ==
    {k \in DOMAIN table : k.ipv4_src = pkt.src /\ k.ipv4_dst = pkt.dst}

\* the matching entry of highest priority
BestMatch(table, pkt) ==
    CHOOSE k \in Matching(table, pkt) :
        \A j \in Matching(table, pkt) : j.priority <= k.priority

\* the packets the hosts send: the client to the VIP, a backend to the client
NatPackets ==
    {[src |-> ClientIp, dst |-> VIP_IP, eth_src |-> ClientIp, eth_dst |-> VIP_MAC,
      origin |-> ClientIp]}
    \cup {[src |-> b, dst |-> ClientIp, eth_src |-> b, eth_dst |-> ClientIp,
           origin |-> b] : b \in NatTalkers}

\* the entries whose idle timeout is explored: the client's forward entry at
\* the client's switch and a backend's reverse entry at the backend's switch
NatExpiring ==
    {[dpid |-> NatHostAt[ClientIp].dpid, match |-> Match(NatPriority, ClientIp, VIP_IP)]}
    \cup {[dpid |-> NatHostAt[b].dpid, match |-> Match(NatPriority, b, ClientIp)]
              : b \in NatTalkers}

NatIdle ==
    /\ hosts = EmptyFn
    /\ flows = EmptyFn
    /\ wire = NoPacket
    /\ nat_last = NoDelivery
    /\ nat_install = NoInstall
    /\ nat_chosen = {}
    /\ nat_up = {}
    /\ nat_pending = EmptyFn

\* the fabric up: every switch registered (its table-miss entry installed),
\* every link discovered, WRR state as constructed
NatInit ==
    /\ server_list = SERVER_LIST
    /\ weights = WEIGHTS
    /\ current_index = -1
    /\ current_weight = 0
    /\ wrr_hist = << >>
    /\ datapaths = NatSwitches
    /\ topo_links = NatLinkSeq
    /\ adj = AddLinks(EmptyFn, NatLinkSeq)
    /\ paths_cache = EmptyFn
    /\ ecmp_last = NoCall
    /\ hosts = EmptyFn
    /\ flows = [d \in NatSwitches |-> EmptyFn]
    /\ wire = NoPacket
    /\ nat_last = NoDelivery
    /\ nat_install = NoInstall
    /\ nat_chosen = {}
    /\ \E b \in NatTalkers : nat_up = {b}
    /\ nat_pending = [d \in NatSwitches |-> EmptyFn]

\* a host puts a packet on its port
NatHostSend(pkt) ==
    /\ wire.at = "none"
    /\ pkt.origin \in nat_up \cup {ClientIp}
    /\ wire' = [at |-> "switch", dpid |-> NatHostAt[pkt.origin].dpid,
                in_port |-> NatHostAt[pkt.origin].port, pkt |-> pkt]
    /\ nat_last' = NoDelivery
    /\ nat_install' = NoInstall
    /\ UNCHANGED <<hosts, flows, nat_chosen, nat_up, nat_pending, wrrVars, lbVars, pinVars, arpVars, wlcVars, nlVars, faVars, topoVars>>

\* a switch takes the packet through its flow table: the matching entry of
\* highest priority, else the table-miss entry (packet-in) while connected
NatSwitchForward ==
    /\ wire.at = "switch"
    /\ nat_install' = NoInstall
    /\ IF Matching(flows[wire.dpid], wire.pkt) = {}
       THEN /\ wire' = IF wire.dpid \in datapaths THEN [wire EXCEPT !.at = "ctrl"]
                       ELSE NoPacket
            /\ UNCHANGED nat_last
       ELSE \E act \in {flows[wire.dpid][BestMatch(flows[wire.dpid], wire.pkt)]} :
                IF act.out_port = wire.in_port
                THEN wire' = NoPacket /\ UNCHANGED nat_last
                ELSE \E e \in {Emit(wire.dpid, act.out_port, ApplyActions(wire.pkt, act))} :
                         wire' = e.wire /\ nat_last' = e.delivered
    /\ UNCHANGED <<hosts, flows, nat_chosen, nat_up, nat_pending, wrrVars, lbVars, pinVars, arpVars, wlcVars, nlVars, faVars, topoVars>>

\* what a run r of _packet_in_handler leaves in the controller, and its
\* packet-out
NatPacketInRun(r) ==
    /\ hosts' = r.hosts
    /\ current_index' = r.idx
    /\ current_weight' = r.cw
    /\ paths_cache' = r.cache
    /\ nat_install' = r.install
    /\ nat_chosen' = IF r.install.ev = "nat"
                     THEN nat_chosen \cup {r.install.real_srv_ip} ELSE nat_chosen
    /\ \/ /\ r.out.kind = "none"
          /\ wire' = NoPacket /\ UNCHANGED nat_last
       \/ /\ r.out.kind = "port"
          /\ \E e \in {Emit(r.out.dpid, r.out.port, wire.pkt)} :
                wire' = e.wire /\ nat_last' = e.delivered
       \/ /\ r.out.kind = "flood"
          /\ \E q \in PhysPorts(wire.dpid) \ {wire.in_port} :
                \E e \in {Emit(wire.dpid, q, wire.pkt)} :
                    wire' = e.wire /\ nat_last' = e.delivered
    /\ ecmp_last' = NoCall
    /\ UNCHANGED <<server_list, weights, wrr_hist, datapaths, adj, topo_links,
                   nat_up, lbVars, pinVars, arpVars, wlcVars, nlVars, faVars>>

\* _packet_in_handler, with its flow-mods applied and its packet-out sent
NatPacketIn ==
    /\ wire.at = "ctrl"
    /\ wire.dpid \in datapaths
    /\ \E r \in {PacketInHandler(wire.dpid, wire.in_port, wire.pkt)} :
           /\ NatPacketInRun(r)
           /\ flows' = r.flows
    /\ UNCHANGED nat_pending

\* ---- WRRController with its flow-mods in flight ----
\* the flow-mods a handler run sent to switch d: the entries it set
NatModsTo(r, d) ==
    [k \in {j \in DOMAIN r.flows[d] :
               j \notin DOMAIN flows[d] \/ flows[d][j] # r.flows[d][j]} |-> r.flows[d][k]]

\* the switch the packet-out is sent to takes the flow-mods sent to it
\* before the packet-out (one connection, in order)
NatOutSwitch(r) == IF r.out.kind = "none" THEN 0 ELSE r.out.dpid

\* _packet_in_handler, its flow-mods sent: each switch applies those sent to
\* it in its own time
NatPacketInSent ==
    /\ wire.at = "ctrl"
    /\ wire.dpid \in datapaths
    /\ \E r \in {PacketInHandler(wire.dpid, wire.in_port, wire.pkt)} :
           /\ NatPacketInRun(r)
           /\ flows' = [d \in DOMAIN flows |->
                          IF d = NatOutSwitch(r)
                          THEN NatModsTo(r, d) @@ nat_pending[d] @@ flows[d]
                          ELSE flows[d]]
           /\ nat_pending' = [d \in DOMAIN nat_pending |->
                                IF d = NatOutSwitch(r) THEN EmptyFn
                                ELSE NatModsTo(r, d) @@ nat_pending[d]]

\* a switch applies the flow-mods sent to it
NatApplyFlowMods(dpid) ==
    /\ nat_pending[dpid] # EmptyFn
    /\ flows' = [flows EXCEPT ![dpid] = nat_pending[dpid] @@ @]
    /\ nat_pending' = [nat_pending EXCEPT ![dpid] = EmptyFn]
    /\ nat_install' = NoInstall
    /\ UNCHANGED <<hosts, wire, nat_last, nat_chosen, nat_up, wrrVars, lbVars, pinVars,
                   arpVars, wlcVars, nlVars, faVars, topoVars>>

\* every backend that talks is up
NatSentInit ==
    /\ server_list = SERVER_LIST
    /\ weights = WEIGHTS
    /\ current_index = -1
    /\ current_weight = 0
    /\ wrr_hist = << >>
    /\ datapaths = NatSwitches
    /\ topo_links = NatLinkSeq
    /\ adj = AddLinks(EmptyFn, NatLinkSeq)
    /\ paths_cache = EmptyFn
    /\ ecmp_last = NoCall
    /\ hosts = EmptyFn
    /\ flows = [d \in NatSwitches |-> EmptyFn]
    /\ wire = NoPacket
    /\ nat_last = NoDelivery
    /\ nat_install = NoInstall
    /\ nat_chosen = {}
    /\ nat_up = NatTalkers
    /\ nat_pending = [d \in NatSwitches |-> EmptyFn]

NextNatSent ==
    \/ \E pkt \in NatPackets : NatHostSend(pkt)
    \/ NatSwitchForward
    \/ NatPacketInSent
    \/ \E dpid \in NatSwitches : NatApplyFlowMods(dpid)

\* an entry reaches its idle timeout and the switch removes it
NatIdleExpire(dpid, k) ==
    /\ k \in DOMAIN flows[dpid]
    /\ flows' = [flows EXCEPT ![dpid] = [j \in DOMAIN flows[dpid] \ {k} |-> flows[dpid][j]]]
    /\ nat_install' = NoInstall
    /\ UNCHANGED <<hosts, wire, nat_last, nat_chosen, nat_up, nat_pending, wrrVars, lbVars, pinVars, arpVars, wlcVars, nlVars, faVars,
                   topoVars>>

NextNat ==
    \/ \E pkt \in NatPackets : NatHostSend(pkt)
    \/ NatSwitchForward
    \/ NatPacketIn
    \/ \E x \in NatExpiring : NatIdleExpire(x.dpid, x.match)
    \/ \E dpid \in TopoFlapping : StateChangeMain(dpid)
    \/ \E dpid \in TopoFlapping : StateChangeDead(dpid)
    \/ SwitchEnter

\* ------------------------------------------------------------------------
\* WRRController._packet_in_handler for every kind of frame, run on
\* packet-ins raised by the switches of the fabric
\* ------------------------------------------------------------------------
\* a frame: its EtherType, its Ethernet addresses and, for IPv4 and ARP,
\* the addresses of that layer (ARP: opcode 1 request, 2 reply)
IpFrame(src, dst, eth_dst) ==
    [eth_type |-> ETH_TYPE_IP, src |-> src, dst |-> dst, eth_src |-> src,
     eth_dst |-> eth_dst, opcode |-> 0]
ArpFrame(opcode, src, dst, eth_dst) ==
    [eth_type |-> ETH_TYPE_ARP, src |-> src, dst |-> dst, eth_src |-> src,
     eth_dst |-> eth_dst, opcode |-> opcode]
LldpFrame ==
    [eth_type |-> ETH_TYPE_LLDP, src |-> 0, dst |-> 0, eth_src |-> 0,
     eth_dst |-> 0, opcode |-> 0]

BroadcastMac == 255
UnknownIp == 7

\* the packet-ins raised: the switch, the ingress port, the frame
PinAt(h, frame) == [dpid |-> NatHostAt[h].dpid, in_port |-> NatHostAt[h].port,
                    frame |-> frame]
PinEvents ==
    { PinAt(ClientIp, IpFrame(ClientIp, VIP_IP, VIP_MAC)),
      PinAt(ClientIp, IpFrame(ClientIp, 1, 1)),
      PinAt(ClientIp, IpFrame(ClientIp, UnknownIp, UnknownIp)),
      PinAt(1, IpFrame(1, ClientIp, ClientIp)),
      PinAt(ClientIp, ArpFrame(1, ClientIp, VIP_IP, BroadcastMac)),
      PinAt(1, ArpFrame(2, 1, ClientIp, ClientIp)),
      [dpid |-> 1, in_port |-> 1, frame |-> LldpFrame] }

\* reply_arp: the ARP reply it builds, and the packet-out that carries it
ArpReplyFromRequester(src_mac, arp_req) ==
    [eth_type |-> ETH_TYPE_ARP, src |-> arp_req.src, dst |-> VIP_IP,
     eth_src |-> src_mac, eth_dst |-> VIP_MAC, opcode |-> 2]
ArpReply(src_mac, arp_req) ==
    [eth_type |-> ETH_TYPE_ARP, src |-> VIP_IP, dst |-> arp_req.src,
     eth_src |-> VIP_MAC, eth_dst |-> src_mac, opcode |-> 2]
reply_arp(dpid, in_port) == [kind |-> "reply", dpid |-> dpid, port |-> in_port]

\* the IPv4 layer of a frame as the packet the IPv4 branch handles
IpPacket(f) ==
    [src |-> f.src, dst |-> f.dst, eth_src |-> f.eth_src, eth_dst |-> f.eth_dst,
     origin |-> f.eth_src]

\* a handler run that only learned (or did nothing) and sent out
Plain(h, out) ==
    Outcome(h, current_index, current_weight, paths_cache, flows, out, NoInstall)

\* _packet_in_handler for an ARP frame: learn, answer a request for the VIP,
\* flood anything else
HandleArpFrame(dpid, in_port, f, h) ==
    IF f.opcode = 1 /\ f.dst = VIP_IP
    THEN Plain(h, reply_arp(dpid, in_port))
    ELSE Plain(h, Flood(dpid))

\* _packet_in_handler
PacketInFrame(dpid, in_port, f) ==
    IF f.eth_type \in {ETH_TYPE_LLDP, ETH_TYPE_IPV6} THEN Plain(hosts, NoOut)
    ELSE IF f.eth_type = ETH_TYPE_IP THEN PacketInHandler(dpid, in_port, IpPacket(f))
    ELSE IF f.eth_type = ETH_TYPE_ARP
    THEN HandleArpFrame(dpid, in_port, f,
                        IF f.src # 0 THEN Learn(hosts, f.src, dpid, in_port, f.eth_src)
                        ELSE hosts)
    ELSE Plain(hosts, Flood(dpid))

\* the frame a packet-out carries
PacketOutData(out, f) ==
    IF out.kind = "reply" THEN ArpReply(f.eth_src, f)
    ELSE IF out.kind = "none" THEN LldpFrame
    ELSE f

\* the variables of the packet-in and ARP specifications at rest
NoPacketIn ==
    [ev |-> "none", dpid |-> 0, in_port |-> 0, frame |-> LldpFrame, out |-> NoOut,
     data |-> LldpFrame, flows_before |-> EmptyFn, hosts_before |-> EmptyFn,
     adj |-> EmptyFn, selected |-> 0]
NoArpEvent ==
    [ev |-> "none", ctl |-> "none", dpid |-> 0, in_port |-> 0, dst_ip |-> 0,
     sel |-> << >>, outs |-> << >>, raised |-> FALSE, arp_table_before |-> EmptyFn,
     arp_cache_before |-> {}]
AuxIdle ==
    /\ pin_last = NoPacketIn
    /\ app = "none"
    /\ wlc_arp_table = EmptyFn
    /\ wlc_arp_cache = {}
    /\ packet_count = 0
    /\ arp_last = NoArpEvent

PinInit ==
    /\ server_list = SERVER_LIST
    /\ weights = WEIGHTS
    /\ current_index = -1
    /\ current_weight = 0
    /\ wrr_hist = << >>
    /\ datapaths = NatSwitches
    /\ topo_links = << >>
    /\ adj = EmptyFn
    /\ paths_cache = EmptyFn
    /\ ecmp_last = NoCall
    /\ hosts = EmptyFn
    /\ flows = [d \in NatSwitches |-> EmptyFn]
    /\ wire = NoPacket
    /\ nat_last = NoDelivery
    /\ nat_install = NoInstall
    /\ nat_chosen = {}
    /\ nat_up = {}
    /\ nat_pending = EmptyFn
    /\ pin_last = NoPacketIn
    /\ app = "none"
    /\ wlc_arp_table = EmptyFn
    /\ wlc_arp_cache = {}
    /\ packet_count = 0
    /\ arp_last = NoArpEvent

\* a connected switch raises a packet-in and _packet_in_handler runs, its
\* flow-mods applied and its packet-out sent
WrrPacketIn(dpid, in_port, f) ==
    /\ dpid \in datapaths
    /\ \E r \in {PacketInFrame(dpid, in_port, f)} :
           /\ hosts' = r.hosts
           /\ current_index' = r.idx
           /\ current_weight' = r.cw
           /\ paths_cache' = r.cache
           /\ flows' = r.flows
           /\ nat_install' = r.install
           /\ pin_last' = [ev |-> "packet_in", dpid |-> dpid, in_port |-> in_port,
                           frame |-> f, out |-> r.out,
                           data |-> PacketOutData(r.out, f),
                           flows_before |-> flows, hosts_before |-> hosts,
                           adj |-> adj, selected |-> WrrLoop(current_index, current_weight).srv]
    /\ ecmp_last' = NoCall
    /\ UNCHANGED <<server_list, weights, wrr_hist, datapaths, adj, topo_links,
                   wire, nat_last, nat_chosen, nat_up, nat_pending, lbVars, arpVars, wlcVars, nlVars, faVars>>

NextPin ==
    \/ \E e \in PinEvents : WrrPacketIn(e.dpid, e.in_port, e.frame)
    \/ \E i \in 1..Len(NatLinkSeq) : LinkAdd(NatLinkSeq[i])
    \/ \E i \in 1..Len(NatLinkSeq) : LinkDelete(NatLinkSeq[i])
    \/ SwitchEnter
    \/ \E dpid \in TopoFlapping : StateChangeMain(dpid)
    \/ \E dpid \in TopoFlapping : StateChangeDead(dpid)

\* ------------------------------------------------------------------------
\* The ARP handlers of the fat-tree controllers: FatTreeNoLoop.handle_arp,
\* WeightedLeastConnectionController.handle_arp and
\* FatTreeSimple.packet_in_handler. ryu-manager runs one of the three
\* applications (app); in one behaviour one switch connects to it.
\* ------------------------------------------------------------------------
ArpApps == {"noloop", "wlc", "simple"}
ArpSwitches == {1, 5, 13}         \* one core, one aggregation, one edge switch
ArpSender == 5                    \* the host 10.0.0.5 asks

\* the target addresses tried at a switch: at the edge its two hosts and a
\* remote one, at the aggregation switch both edges of its pod and a remote
\* pod, at the core two pods and an address outside 1..16
ArpTargets(dpid) ==
    IF IsEdge(dpid) THEN {1, 2, 9}
    ELSE IF IsAgg(dpid) THEN {1, 3, 9}
    ELSE {1, 9, 17}

ArpInputs ==
    {[dpid |-> d, in_port |-> q, src_ip |-> ArpSender, dst_ip |-> t, opcode |-> 1]
        : d \in ArpSwitches, q \in WlcPorts, t \in 1..17}

\* WLC handle_arp: the output ports it determines, in order
WlcArpOutPorts(dpid, in_port, dst_ip) ==
    IF IsEdge(dpid) THEN
        LET edge_num == dpid - 13
        IN  IF in_port <= 2
            THEN IF dst_ip = edge_num * 2 + 1 THEN <<1>>
                 ELSE IF dst_ip = edge_num * 2 + 2 THEN <<2>>
                 ELSE <<3, 4>>
            ELSE <<1, 2>>
    ELSE IF IsAgg(dpid) THEN
        LET pod_start == ((dpid - 5) \div 2) * 4 + 1
            pod_end   == ((dpid - 5) \div 2) * 4 + 4
        IN  IF in_port <= 2
            THEN IF pod_start <= dst_ip /\ dst_ip <= pod_end
                 THEN << ((dst_ip - pod_start) \div 2) + 1 >>
                 ELSE <<3, 4>>
            ELSE <<1, 2>>
    ELSE IF IsCore(dpid) THEN
        IF 1 <= dst_ip /\ dst_ip <= 16
        THEN << ((dst_ip - 1) \div 4) + 1 >>
        ELSE <<1, 2, 3, 4>>
    ELSE << >>

\* the port selection of a switch that floods every ARP frame
SimpleArpFlood(dpid, in_port) == <<1, 2, 3, 4>>

\* FatTreeSimple.packet_in_handler: the output ports it determines
SimpleArpOutPorts(dpid, in_port) ==
    IF IsEdge(dpid) THEN (IF in_port <= 2 THEN <<3, 4>> ELSE <<1, 2>>)
    ELSE IF IsAgg(dpid) THEN (IF in_port <= 2 THEN <<3, 4>> ELSE <<1, 2>>)
    ELSE IF IsCore(dpid) THEN <<1, 2, 3, 4>>
    ELSE << >>

\* WLC packet_in_handler for an ARP frame, with handle_arp
WlcArpPacketInHandler(a) ==
    /\ a.dpid \in DOMAIN wlc_mac_to_port
    /\ wlc_mac_to_port' = [wlc_mac_to_port EXCEPT ![a.dpid] = (a.src_ip :> a.in_port) @@ @]
    /\ wlc_arp_table' = (a.src_ip :> a.src_ip) @@ wlc_arp_table
    /\ wlc_arp_cache' = wlc_arp_cache \cup {ArpKey(a)}
    /\ arp_last' = [ev |-> "arp", ctl |-> "wlc", dpid |-> a.dpid, in_port |-> a.in_port,
                    dst_ip |-> a.dst_ip,
                    sel |-> WlcArpOutPorts(a.dpid, a.in_port, a.dst_ip),
                    outs |-> SkipIngress(WlcArpOutPorts(a.dpid, a.in_port, a.dst_ip),
                                         a.in_port),
                    raised |-> FALSE,
                    arp_table_before |-> wlc_arp_table,
                    arp_cache_before |-> wlc_arp_cache]
    /\ UNCHANGED <<app, packet_count, port_stats, wlc_last, wlcNet>>

WlcArpPacketIn(a) ==
    /\ WlcArpPacketInHandler(a)
    /\ UNCHANGED <<wrrVars, lbVars, pinVars, nlVars, faVars, topoVars, natVars>>

\* pkt.get_protocol(arp.arp) on a frame of EtherType 0x0806: the ARP layer,
\* or None when the frame carries none (the payload did not parse as ARP)
None == [layer |-> "None"]
GetArpLayer(f) == IF f.has_arp THEN f.arp ELSE None

\* arp_pkt.src_ip, the first statement of handle_arp after get_protocol:
\* an attribute of None raises AttributeError, which ends the handler
RaisesAttributeError(arp_pkt) == arp_pkt = None

\* the frames of EtherType ARP without an ARP layer, from the asking host
TruncatedArp == [eth_type |-> ETH_TYPE_ARP, eth_src |-> ArpSender, has_arp |-> FALSE,
                 arp |-> None]

\* the ingress ports such frames arrive on
TruncatedPorts == {1}

\* what the handlers record of a frame for which handle_arp raised
ArpRaised(ctl, dpid, in_port, table, keys) ==
    [ev |-> "arp_no_layer", ctl |-> ctl, dpid |-> dpid, in_port |-> in_port,
     dst_ip |-> 0, sel |-> << >>, outs |-> << >>, raised |-> TRUE, arp_table_before |-> table,
     arp_cache_before |-> keys]

\* FatTreeNoLoop.packet_in_handler for such a frame: the source MAC is
\* learned, handle_arp is entered and raises on arp_pkt.src_ip
NlTruncatedArpPacketIn(dpid, in_port, f) ==
    /\ dpid \in DOMAIN nl_mac_to_port
    /\ RaisesAttributeError(GetArpLayer(f))
    /\ nl_mac_to_port' = [nl_mac_to_port EXCEPT ![dpid] = (f.eth_src :> in_port) @@ @]
    /\ arp_last' = ArpRaised("noloop", dpid, in_port, nl_arp_table, handled_arps.keys)
    /\ UNCHANGED <<handled_arps, nl_arp_table, nl_last, nl_prev, nl_flows, faVars, app,
                   wlc_arp_table, wlc_arp_cache, packet_count, wrrVars, lbVars, pinVars,
                   wlcVars, topoVars, natVars>>

\* WLC packet_in_handler for such a frame: the same
WlcTruncatedArpPacketIn(dpid, in_port, f) ==
    /\ dpid \in DOMAIN wlc_mac_to_port
    /\ RaisesAttributeError(GetArpLayer(f))
    /\ wlc_mac_to_port' = [wlc_mac_to_port EXCEPT ![dpid] = (f.eth_src :> in_port) @@ @]
    /\ arp_last' = ArpRaised("wlc", dpid, in_port, wlc_arp_table, wlc_arp_cache)
    /\ UNCHANGED <<port_stats, wlc_last, wlcNet, app, wlc_arp_table, wlc_arp_cache, packet_count,
                   wrrVars, lbVars, pinVars, nlVars, faVars, topoVars, natVars>>

\* the packet-ins FatTreeSimple handles before its counter reaches the bound
MaxPackets == 3

\* FatTreeSimple.packet_in_handler
SimplePacketInHandler(bound, dpid, in_port, eth_type) ==
    /\ packet_count < bound
    /\ packet_count' = packet_count + 1
    /\ arp_last' = [ev |-> IF eth_type = ETH_TYPE_ARP THEN "arp" ELSE "other",
                    ctl |-> "simple", dpid |-> dpid, in_port |-> in_port, dst_ip |-> 0,
                    sel |-> IF eth_type = ETH_TYPE_ARP
                            THEN SimpleArpOutPorts(dpid, in_port) ELSE << >>,
                    outs |-> IF eth_type = ETH_TYPE_ARP
                             THEN SkipIngress(SimpleArpOutPorts(dpid, in_port), in_port)
                             ELSE << >>,
                    raised |-> FALSE,
                    arp_table_before |-> EmptyFn, arp_cache_before |-> {}]
    /\ UNCHANGED <<app, wlc_arp_table, wlc_arp_cache>>

SimplePacketIn(dpid, in_port, eth_type) ==
    /\ SimplePacketInHandler(MaxPackets, dpid, in_port, eth_type)
    /\ UNCHANGED <<wrrVars, lbVars, pinVars, wlcVars, nlVars, faVars, topoVars, natVars>>

ArpInit ==
    /\ pin_last = NoPacketIn
    /\ app \in ArpApps
    /\ wlc_arp_table = EmptyFn
    /\ wlc_arp_cache = {}
    /\ packet_count = 0
    /\ arp_last = NoArpEvent

NextArp ==
    \/ \E dpid \in ArpSwitches :
           /\ app = "noloop" /\ DOMAIN nl_mac_to_port \subseteq {dpid}
           /\ NlSwitchFeatures(dpid)
    \/ \E a \in ArpInputs :
           /\ app = "noloop" /\ a.dst_ip \in ArpTargets(a.dpid)
           /\ NlArpPacketIn(a)
    \/ \E dpid \in ArpSwitches :
           /\ app = "wlc" /\ DOMAIN wlc_mac_to_port \subseteq {dpid}
           /\ WlcSwitchFeatures(dpid)
    \/ \E a \in ArpInputs :
           /\ app = "wlc" /\ a.dst_ip \in ArpTargets(a.dpid)
           /\ WlcArpPacketIn(a)
    \/ \E dpid \in ArpSwitches, in_port \in TruncatedPorts :
           /\ app = "noloop"
           /\ NlTruncatedArpPacketIn(dpid, in_port, TruncatedArp)
    \/ \E dpid \in ArpSwitches, in_port \in TruncatedPorts :
           /\ app = "wlc"
           /\ WlcTruncatedArpPacketIn(dpid, in_port, TruncatedArp)
    \/ \E dpid \in ArpSwitches, in_port \in WlcPorts, t \in {ETH_TYPE_ARP, ETH_TYPE_IP} :
           /\ app = "simple"
           /\ SimplePacketIn(dpid, in_port, t)

\* ---- one ARP request travelling the k=4 fat tree ----
\* host h (10.0.0.h) hangs on port FatHostPort(h) of edge switch FatHostEdge(h)
FatHosts == 1..16
FatHostEdge(h) == 13 + ((h - 1) \div 2)
FatHostPort(h) == ((h - 1) % 2) + 1

\* what is plugged into a port of a switch in FatTreeFixed
FatPeer(dpid, port) ==
    IF IsEdge(dpid) /\ port \in {1, 2}
    THEN [kind |-> "host", id |-> (dpid - 13) * 2 + port, port |-> 0]
    ELSE IF \E i \in DOMAIN FatLinkSeq :
                FatLinkSeq[i].src = dpid /\ FatLinkSeq[i].src_port = port
    THEN LET l == FatLinkSeq[CHOOSE i \in DOMAIN FatLinkSeq :
                       FatLinkSeq[i].src = dpid /\ FatLinkSeq[i].src_port = port]
         IN  [kind |-> "switch", id |-> l.dst, port |-> l.dst_port]
    ELSE IF \E i \in DOMAIN FatLinkSeq :
                FatLinkSeq[i].dst = dpid /\ FatLinkSeq[i].dst_port = port
    THEN LET l == FatLinkSeq[CHOOSE i \in DOMAIN FatLinkSeq :
                       FatLinkSeq[i].dst = dpid /\ FatLinkSeq[i].dst_port = port]
         IN  [kind |-> "switch", id |-> l.src, port |-> l.src_port]
    ELSE [kind |-> "none", id |-> 0, port |-> 0]

\* a hop out of a port goes upward (edge to aggregation, aggregation to
\* core) or downward (toward the hosts)
HopUp(dpid, port) == (IsEdge(dpid) \/ IsAgg(dpid)) /\ port >= 3

\* the requests followed: hosts 1 and 8 asking for every other host
FaAskers == {1, 16}
FaTargets == {2, 3, 15}
FaRequests == {[src |-> a, dst |-> t] : a \in FaAskers, t \in FaTargets}
                  \ {[src |-> a, dst |-> a] : a \in FaAskers}

\* the copies in flight, each with the number of times it is in flight
FaTake(b, c) == IF b[c] = 1 THEN [x \in DOMAIN b \ {c} |-> b[x]]
                ELSE [b EXCEPT ![c] = @ - 1]
FaPut(b, S) == [x \in DOMAIN b \cup S |->
                  (IF x \in DOMAIN b THEN b[x] ELSE 0) + (IF x \in S THEN 1 ELSE 0)]

\* the packet-ins FatTreeSimple may count while the request travels
MaxArpPacketIns == 64

\* the ARP layer of the request as the packet-in of a copy carries it
FaArp(c) == [dpid |-> c.dpid, in_port |-> c.in_port, src_ip |-> fa_req.src,
             dst_ip |-> fa_req.dst, opcode |-> 1]

\* a host sends its request: the frame reaches its edge switch
FaHostSend(r) ==
    /\ fa_req = NoRequest
    /\ fa_req' = r
    /\ fa_copies' = FaPut(EmptyFn, {[dpid |-> FatHostEdge(r.src),
                                      in_port |-> FatHostPort(r.src), down |-> FALSE]})
    /\ UNCHANGED <<fa_out, fa_pins, fa_bad, wrrVars, lbVars, pinVars, arpVars, wlcVars,
                   handled_arps, nl_arp_table, nl_mac_to_port, nl_last, nl_prev, nl_flows,
                   topoVars, natVars>>

\* the packet-outs of a handler run (output ports outs) leave switch
\* c.dpid: to a host, or to the switch at the other end of the link
FaForward(c, outs) ==
    /\ fa_copies' =
          FaPut(FaTake(fa_copies, c),
                {[dpid |-> FatPeer(c.dpid, outs[i]).id,
                  in_port |-> FatPeer(c.dpid, outs[i]).port,
                  down |-> c.down \/ ~HopUp(c.dpid, outs[i])] :
                    i \in {j \in DOMAIN outs : FatPeer(c.dpid, outs[j]).kind = "switch"}})
    /\ fa_out' = fa_out \cup {[dpid |-> c.dpid, port |-> outs[i]] :
                    i \in {j \in DOMAIN outs : FatPeer(c.dpid, outs[j]).kind = "host"}}
    /\ fa_pins' = fa_pins + 1
    /\ fa_bad' = (fa_bad \/ (c.down /\ \E i \in DOMAIN outs : HopUp(c.dpid, outs[i])))
    /\ UNCHANGED fa_req

\* the table-miss entry sends the copy to the controller, which handles it
FaNlPacketIn(c) ==
    /\ app = "noloop"
    /\ c \in DOMAIN fa_copies
    /\ NlArpPacketInHandler(FaArp(c))
    /\ FaForward(c, nl_last'.outs)
    /\ UNCHANGED <<wrrVars, lbVars, pinVars, arpVars, wlcVars, topoVars, natVars>>

FaWlcPacketIn(c) ==
    /\ app = "wlc"
    /\ c \in DOMAIN fa_copies
    /\ WlcArpPacketInHandler(FaArp(c))
    /\ FaForward(c, arp_last'.outs)
    /\ UNCHANGED <<wrrVars, lbVars, pinVars, nlVars, topoVars, natVars>>

\* FatTreeSimple's handler reads nothing but the packet, so its runs
\* commute: the queued packet-ins are taken in the order of switch and port
FaRank(c) == c.dpid * 8 + c.in_port

FaSimplePacketIn(c) ==
    /\ app = "simple"
    /\ c \in DOMAIN fa_copies
    /\ \A x \in DOMAIN fa_copies : FaRank(c) <= FaRank(x)
    /\ SimplePacketInHandler(MaxArpPacketIns, c.dpid, c.in_port, ETH_TYPE_ARP)
    /\ FaForward(c, arp_last'.outs)
    /\ UNCHANGED <<wrrVars, lbVars, pinVars, wlcVars, nlVars, topoVars, natVars>>

FaPacketIn ==
    \E c \in DOMAIN fa_copies : FaNlPacketIn(c) \/ FaWlcPacketIn(c) \/ FaSimplePacketIn(c)

\* the fat tree up under one of the controllers: every switch has
\* connected, the controller has handled no packet-in yet
FaNlConnected ==
    /\ handled_arps = [keys |-> {}, others |-> 0]
    /\ nl_arp_table = EmptyFn
    /\ nl_mac_to_port = IF app = "noloop" THEN [d \in NlFabric |-> EmptyFn] ELSE EmptyFn
    /\ nl_last = NlNoEvent
    /\ nl_prev = NlNoEvent
    /\ nl_flows = IF app = "noloop"
                  THEN [d \in NlFabric |-> NlApplyMods(EmptyFn, NlFeatureMods(d))]
                  ELSE EmptyFn

FaWlcConnected ==
    /\ port_stats = IF app = "wlc" THEN [d \in NlFabric |-> InitPortStats(d)] ELSE EmptyFn
    /\ wlc_mac_to_port = IF app = "wlc" THEN [d \in NlFabric |-> EmptyFn] ELSE EmptyFn
    /\ wlc_last = WlcNoEvent
    /\ wlc_flows = {}
    /\ wlc_to_ctl = << >>
    /\ wlc_to_sw = << >>

\* ---- one IPv4 packet travelling the k=4 fat tree under FatTreeNoLoop ----
\* the packets followed: every host to every other host
FaPackets == {[src |-> a, dst |-> t] : a \in FatHosts, t \in FatHosts}
                 \ {[src |-> a, dst |-> a] : a \in FatHosts}

\* the switches a packet may cross before it is given up
MaxSwitchHops == 8

FaDataFrame == NlFrame(ETH_TYPE_IP, fa_req.src, fa_req.dst, fa_req.dst)

\* a host sends the packet: it reaches its edge switch
FaDataSend(r) ==
    /\ app = "noloop"
    /\ fa_req = NoRequest
    /\ fa_req' = r
    /\ fa_copies' = FaPut(EmptyFn, {[dpid |-> FatHostEdge(r.src),
                                      in_port |-> FatHostPort(r.src),
                                      hops |-> 0, seen |-> {}]})
    /\ UNCHANGED <<fa_out, fa_pins, fa_bad, wrrVars, lbVars, pinVars, arpVars, wlcVars,
                   nlVars, topoVars, natVars>>

\* the output ports of the packet-out packet_in_handler sends for a frame
\* that is neither LLDP nor ARP: the learned port of the destination MAC
NlDataPacketOut(dpid, in_port, f) ==
    LET mtp == (f.eth_src :> in_port) @@ nl_mac_to_port[dpid]
    IN  IF f.eth_dst \in DOMAIN mtp /\ mtp[f.eth_dst] # OFPP_CONTROLLER
        THEN << mtp[f.eth_dst] >> ELSE << >>

\* the packet leaves switch c.dpid on the ports outs, after pin packet-ins
FaDataForward(c, outs, pin) ==
    /\ fa_copies' =
          FaPut(FaTake(fa_copies, c),
                {[dpid |-> FatPeer(c.dpid, outs[i]).id,
                  in_port |-> FatPeer(c.dpid, outs[i]).port,
                  hops |-> c.hops + 1, seen |-> c.seen \cup {c.dpid}] :
                    i \in {j \in DOMAIN outs : FatPeer(c.dpid, outs[j]).kind = "switch"}})
    /\ fa_out' = fa_out \cup {[dpid |-> c.dpid, port |-> outs[i], hops |-> c.hops + 1] :
                    i \in {j \in DOMAIN outs : FatPeer(c.dpid, outs[j]).kind = "host"}}
    /\ fa_pins' = fa_pins + pin
    /\ fa_bad' = (fa_bad \/ c.dpid \in c.seen)
    /\ UNCHANGED fa_req

\* a switch handles the packet with a matching entry of highest priority:
\* it outputs it on the entry's ports, or sends it to the controller,
\* whose handler then runs
FaDataHop(c) ==
    /\ c \in DOMAIN fa_copies
    /\ c.hops < MaxSwitchHops
    /\ \E k \in NlBestEntries(nl_flows[c.dpid], c.in_port, FaDataFrame) :
          IF nl_flows[c.dpid][k] = <<OFPP_CONTROLLER>>
          THEN /\ NlDataPacketInHandler(c.dpid, c.in_port, FaDataFrame)
               /\ FaDataForward(c, NlDataPacketOut(c.dpid, c.in_port, FaDataFrame), 1)
          ELSE /\ FaDataForward(c, nl_flows[c.dpid][k], 0)
               /\ UNCHANGED nlVars
    /\ UNCHANGED <<wrrVars, lbVars, pinVars, arpVars, wlcVars, topoVars, natVars>>

NextFatData ==
    \/ \E r \in FaPackets : FaDataSend(r)
    \/ \E c \in DOMAIN fa_copies : FaDataHop(c)

NextFatArp ==
    \/ \E r \in FaRequests : FaHostSend(r)
    \/ \E c \in DOMAIN fa_copies : FaNlPacketIn(c)
    \/ \E c \in DOMAIN fa_copies : FaWlcPacketIn(c)
    \/ \E c \in DOMAIN fa_copies : FaSimplePacketIn(c)

\* ------------------------------------------------------------------------
\* Specification of the two WRR selectors, for every configuration of
\* 1..MaxServers backends with weights in 1..MaxWeight
\* ------------------------------------------------------------------------
InitWRR ==
    /\ \E n \in 1..MaxServers :
         /\ server_list = [i \in 1..n |-> i]
         /\ weights \in [1..n -> 1..MaxWeight]
         /\ lb_server_list \in [1..n -> [weight : 1..MaxWeight, active_conn : {0}]]
         /\ \A i \in 1..n : lb_server_list[i].weight = weights[i]
    /\ current_index = -1
    /\ current_weight = 0
    /\ wrr_hist = <<>>
    /\ lb_current_server = 0
    /\ lb_hist = <<>>
    /\ WlcInit /\ NlInit /\ FaIdle /\ AuxIdle /\ TopoInit /\ NatIdle

NextWRR == GetNextServer \/ WeightedRoundRobin

\* WRRController.get_next_server for every configuration of 1..MaxServers
\* backends with weights in 0..MaxWeight, not all of them 0
InitWrrZero ==
    /\ \E n \in 1..MaxServers :
         /\ server_list = [i \in 1..n |-> i]
         /\ weights \in [1..n -> 0..MaxWeight]
         /\ \E i \in 1..n : weights[i] >= 1
    /\ current_index = -1
    /\ current_weight = 0
    /\ wrr_hist = <<>>
    /\ LbIdle /\ WlcInit /\ NlInit /\ FaIdle /\ AuxIdle /\ TopoInit /\ NatIdle

NextWrrZero == GetNextServer

SpecWrrZero == InitWrrZero /\ [][NextWrrZero]_vars

SpecWRR == InitWRR /\ [][NextWRR]_vars

\* the WLC controller alone
InitWLC == WrrIdle /\ LbIdle /\ WlcInit /\ NlInit /\ FaIdle /\ AuxIdle /\ TopoInit /\ NatIdle
SpecWLC == InitWLC /\ [][NextWLC]_vars

\* FatTreeLoadBalancer selecting servers by weighted least connection
InitLbWlc == WrrIdle /\ LbWlcInit /\ WlcInit /\ NlInit /\ FaIdle /\ AuxIdle /\ TopoInit /\ NatIdle
SpecLbWlc == InitLbWlc /\ [][NextLbWlc]_vars

\* the WLC controller, one switch and the messages between them
SpecWlcNet == InitWLC /\ [][NextWlcNet]_vars

\* the WLC controller given packets for destinations that are not hosts
SpecWlcStray == InitWLC /\ [][NextWlcStray]_vars

\* the WLC controller selecting uplinks, undisturbed
SpecWlcRun == InitWLC /\ [][NextWlcRun]_vars

\* the topology side of WRRController alone
InitTopo == WrrIdle /\ LbIdle /\ WlcInit /\ NlInit /\ FaIdle /\ AuxIdle /\ TopoInit /\ NatIdle
SpecTopo == InitTopo /\ [][NextTopo]_vars

\* WRRController with the data plane of the two-switch fabric
InitNat == LbIdle /\ WlcInit /\ NlInit /\ FaIdle /\ AuxIdle /\ NatInit
SpecNat == InitNat /\ [][NextNat]_vars

\* WRRController handling packet-ins on the two-switch fabric
\* one ARP request on the k=4 fat tree under each of the three controllers;
\* a copy that reached a switch is handled in the end
InitFatArp == WrrIdle /\ LbIdle /\ FaIdle /\ ArpInit /\ FaNlConnected /\ FaWlcConnected
                /\ TopoInit /\ NatIdle
SpecFatArp == InitFatArp /\ [][NextFatArp]_vars /\ WF_vars(FaPacketIn)

\* one IPv4 packet on the k=4 fat tree with FatTreeNoLoop's proactive
\* entries on all 20 switches
InitFatData == InitFatArp /\ app = "noloop"
SpecFatData == InitFatData /\ [][NextFatData]_vars

\* WRRController with the flow-mods of its handlers in flight
InitNatSent == LbIdle /\ WlcInit /\ NlInit /\ FaIdle /\ AuxIdle /\ NatSentInit
SpecNatSent == InitNatSent /\ [][NextNatSent]_vars

InitPin == LbIdle /\ WlcInit /\ NlInit /\ FaIdle /\ PinInit
SpecPin == InitPin /\ [][NextPin]_vars

\* the ARP handlers of the three fat-tree controllers
InitArp == WrrIdle /\ LbIdle /\ WlcInit /\ NlInit /\ FaIdle /\ ArpInit /\ TopoInit /\ NatIdle
SpecArp == InitArp /\ [][NextArp]_vars

\* path search of WRRController on the k=4 fat tree
InitFat == WrrIdle /\ LbIdle /\ WlcInit /\ NlInit /\ FaIdle /\ AuxIdle /\ FatInit /\ NatIdle
SpecFat == InitFat /\ [][NextFat]_vars

\* the flow tables FatTreeNoLoop programs
InitFlows == WrrIdle /\ LbIdle /\ WlcInit /\ NlInit /\ FaIdle /\ AuxIdle /\ TopoInit /\ NatIdle
SpecFlows == InitFlows /\ [][NextFlows]_vars

\* FatTreeNoLoop with one switch of the fabric connecting, and connecting
\* again, over a table that holds stale or reactive entries
SpecReconnect == InitFlows /\ [][NextReconnect]_vars

\* the FatTreeNoLoop controller alone
InitNoLoop == WrrIdle /\ LbIdle /\ WlcInit /\ NlInit /\ FaIdle /\ AuxIdle /\ TopoInit /\ NatIdle
SpecNoLoop == InitNoLoop /\ [][NextNoLoop]_vars

\* ------------------------------------------------------------------------
\* C1: in both WRR implementations, for any configured positive weights,
\* every window of N * (sum of weights) consecutive selections, starting at
\* any position, contains each backend exactly N * weight[backend] times.
\* ------------------------------------------------------------------------
TotalWeight == SumSeq([i \in 1..Len(server_list) |-> weights[server_list[i]]])

WindowsBalanced(h) ==
    \A N \in 1..MaxHist : \A start \in 1..Len(h) :
        (start + N * TotalWeight - 1 <= Len(h)) =>
            \A s \in DOMAIN weights :
                CountIn(h, s, start, N * TotalWeight) = N * weights[s]

C1_WrrWindowCounts == WindowsBalanced(wrr_hist) /\ WindowsBalanced(lb_hist)

\* both selectors have produced two full cycles of unequal weights
C1_Witness ==
    /\ Len(server_list) >= 2
    /\ \E s, t \in DOMAIN weights : weights[s] # weights[t]
    /\ Len(wrr_hist) >= 2 * TotalWeight
    /\ Len(lb_hist) >= 2 * TotalWeight

\* ------------------------------------------------------------------------
\* C2: with backend list [A, B] and weights {A: 3, B: 2} the first 10
\* selections of get_next_server are [A,A,A,B,B,A,A,A,B,B] (A = 1, B = 2).
\* ------------------------------------------------------------------------
BlockSequence == <<1, 1, 1, 2, 2, 1, 1, 1, 2, 2>>

C2_FirstTenInBlocks ==
    (server_list = <<1, 2>> /\ weights = <<3, 2>>) =>
        \A i \in 1..Len(wrr_hist) : i <= Len(BlockSequence) => wrr_hist[i] = BlockSequence[i]

\* ------------------------------------------------------------------------
\* C3: get_least_loaded_port returns, among the tracked ports with weight
\* > 0, a port of minimal connections/weight (compared exactly); on a tie
\* the port configured first (3 before 4); {A: 0/3, B: 2/2} and
\* {A: 3/3, B: 2/2} both give A.
\* ------------------------------------------------------------------------
C3_LeastLoadedPort ==
    (wlc_last.ev = "packet_in" /\ wlc_last.use_wlc) =>
        LET st == wlc_last.before[wlc_last.dpid]
        IN  \E i \in 1..Len(st) :
              /\ st[i].port = wlc_last.port
              /\ st[i].weight > 0
              /\ \A j \in 1..Len(st) : st[j].weight > 0 =>
                    /\ st[i].connections * st[j].weight <= st[j].connections * st[i].weight
                    /\ (st[i].connections * st[j].weight = st[j].connections * st[i].weight)
                          => i <= j
              /\ (ConnOf(st, 3) = 0 /\ ConnOf(st, 4) = 2) => wlc_last.port = 3
              /\ (ConnOf(st, 3) = 3 /\ ConnOf(st, 4) = 2) => wlc_last.port = 3

\* a selection made at the tie 3/3 = 2/2
C3_Witness ==
    /\ wlc_last.ev = "packet_in" /\ wlc_last.use_wlc
    /\ ConnOf(wlc_last.before[wlc_last.dpid], 3) = 3
    /\ ConnOf(wlc_last.before[wlc_last.dpid], 4) = 2
    /\ wlc_last.port = 3

\* ------------------------------------------------------------------------
\* Reference notions on the adjacency table, defined without the search
\* ------------------------------------------------------------------------
Successors(a, n) == {Nbrs(a, n)[i].nbr : i \in 1..Len(Nbrs(a, n))}

\* the nodes within k hops of src
RECURSIVE Within(_, _, _)
Within(a, src, k) ==
    IF k = 0 THEN {src}
    ELSE LET B == Within(a, src, k - 1)
         IN  B \cup UNION {Successors(a, n) : n \in B}

MaxHops == Cardinality(TopoSwitches) - 1

Reachable(a, src, dst) == dst \in Within(a, src, MaxHops)

\* the least number of hops from src to dst, for a reachable dst
BfsDistance(a, src, dst) ==
    CHOOSE k \in 0..MaxHops :
        dst \in Within(a, src, k) /\ \A j \in 0..(k - 1) : dst \notin Within(a, src, j)

\* the simple paths of a given hop count from src to dst
SimplePaths(a, src, dst, hops) ==
    {p \in [1..(hops + 1) -> TopoSwitches] :
        /\ p[1] = src /\ p[hops + 1] = dst
        /\ \A i, j \in 1..(hops + 1) : i # j => p[i] # p[j]
        /\ \A i \in 1..hops : p[i + 1] \in Successors(a, p[i])}

\* ------------------------------------------------------------------------
\* C4: for src # dst with dst reachable in the adjacency table, every path
\* returned by ecmp_paths(src, dst) has exactly BFS-distance many hops,
\* cycles in the graph notwithstanding.
\* ------------------------------------------------------------------------
C4_PathsAreShortest ==
    (/\ ecmp_last.ev = "ecmp"
     /\ ecmp_last.src # ecmp_last.dst
     /\ Reachable(adj, ecmp_last.src, ecmp_last.dst))
    => \A i \in 1..Len(ecmp_last.paths) :
          Len(ecmp_last.paths[i]) - 1 = BfsDistance(adj, ecmp_last.src, ecmp_last.dst)

\* a fresh search between adjacent switches of the complete ring, where a
\* three-hop way round exists beside the direct link
C4_Witness ==
    /\ ecmp_last.ev = "ecmp" /\ ~ecmp_last.hit
    /\ ecmp_last.src = 1 /\ ecmp_last.dst = 2
    /\ SimplePaths(adj, 1, 2, 3) # {}
    /\ ecmp_last.paths = << <<1, 2>> >>

\* ------------------------------------------------------------------------
\* C5: ecmp_paths(src, dst) returns every simple path of BFS-distance many
\* hops exactly once; [[src]] for src = dst; the empty list for an
\* unreachable dst.
\* ------------------------------------------------------------------------
C5_AllShortestPathsOnce ==
    ecmp_last.ev = "ecmp" =>
        LET src == ecmp_last.src
            dst == ecmp_last.dst
            ps  == ecmp_last.paths
        IN  IF src = dst THEN ps = << <<src>> >>
            ELSE IF ~Reachable(adj, src, dst) THEN ps = << >>
            ELSE /\ SeqSet(ps) = SimplePaths(adj, src, dst, BfsDistance(adj, src, dst))
                 /\ \A i, j \in 1..Len(ps) : i # j => ps[i] # ps[j]

\* a fresh search that returned both equal-cost paths across the ring
C5_Witness ==
    /\ ecmp_last.ev = "ecmp" /\ ~ecmp_last.hit
    /\ ecmp_last.src = 1 /\ ecmp_last.dst = 4
    /\ Len(ecmp_last.paths) = 2

\* ------------------------------------------------------------------------
\* C6: after the client's packet to the VIP got a NAT path to a backend,
\* every packet of that backend handed to the client's port carries
\* ipv4_src = VIP_IP and eth_src = VIP_MAC, whatever packet-in, idle-expiry
\* and switch connect/disconnect events happen.
\* ------------------------------------------------------------------------
C6_ClientSeesOnlyVip ==
    (nat_last.host = ClientIp /\ nat_last.pkt.origin \in nat_chosen)
    => (nat_last.pkt.src = VIP_IP /\ nat_last.pkt.eth_src = VIP_MAC)

\* ------------------------------------------------------------------------
\* Walking a packet through the NAT entries of the flow tables alone
\* ------------------------------------------------------------------------
NatEntries(tables) ==
    [d \in DOMAIN tables |->
        [k \in {j \in DOMAIN tables[d] : j.priority = NatPriority} |-> tables[d][k]]]

RECURSIVE Walk(_, _, _, _, _)
Walk(tables, dpid, in_port, pkt, fuel) ==
    IF fuel = 0 THEN [status |-> "loop", at |-> dpid, pkt |-> pkt]
    ELSE IF Matching(tables[dpid], pkt) = {}
    THEN [status |-> "miss", at |-> dpid, pkt |-> pkt]
    ELSE LET act  == tables[dpid][BestMatch(tables[dpid], pkt)]
             pkt2 == ApplyActions(pkt, act)
             a    == Attached(dpid, act.out_port)
         IN  CASE a.kind = "switch" -> Walk(tables, a.dpid, a.port, pkt2, fuel - 1)
               [] a.kind = "host" -> [status |-> "delivered", at |-> a.dpid, pkt |-> pkt2]
               [] OTHER -> [status |-> "lost", at |-> dpid, pkt |-> pkt2]

\* the last handler installed a NAT path of two or more registered switches
\* between the true attachment points of the client and of the backend
NatPathInstalled ==
    /\ nat_install.ev = "nat"
    /\ Len(nat_install.path) >= 2
    /\ SeqSet(nat_install.path) \subseteq datapaths
    /\ SeqSet(nat_install.path) \subseteq DOMAIN adj
    /\ nat_install.client_ip = ClientIp
    /\ nat_install.path[1] = NatHostAt[ClientIp].dpid
    /\ nat_install.src_port = NatHostAt[ClientIp].port
    /\ nat_install.path[Len(nat_install.path)] = NatHostAt[nat_install.real_srv_ip].dpid
    /\ nat_install.srv_port = NatHostAt[nat_install.real_srv_ip].port

\* (a) the forward entries
NatForwardInstalled ==
    LET c == nat_install
        n == Len(c.path)
        m == Match(NatPriority, c.client_ip, VIP_IP)
    IN  \A i \in 1..n :
            /\ m \in DOMAIN flows[c.path[i]]
            /\ flows[c.path[i]][m] =
                 IF i < n THEN Output(PortToward(adj, c.path[i], c.path[i + 1]))
                 ELSE Actions(0, c.real_srv_ip, 0, c.srv_mac, c.srv_port)

\* (b) the reverse entries
NatReverseInstalled ==
    LET c == nat_install
        n == Len(c.path)
        rev == Reverse(c.path)
        m == Match(NatPriority, c.real_srv_ip, c.client_ip)
    IN  \A i \in 1..n :
            /\ m \in DOMAIN flows[rev[i]]
            /\ LET act == flows[rev[i]][m]
               IN  CASE i = 1 -> /\ act.set_ipv4_src = VIP_IP /\ act.set_eth_src = VIP_MAC
                                 /\ act.out_port = PortToward(adj, rev[1], rev[2])
                     [] i = n -> /\ act.set_eth_dst = c.client_mac
                                 /\ act.out_port = c.src_port
                     [] OTHER -> act = Output(PortToward(adj, rev[i], rev[i + 1]))

\* the client's packet walked from the client's port
NatForwardWalk ==
    LET c == nat_install
        r == Walk(NatEntries(flows), c.path[1], c.src_port,
                  [src |-> c.client_ip, dst |-> VIP_IP, eth_src |-> c.client_mac,
                   eth_dst |-> VIP_MAC, origin |-> c.client_ip],
                  Len(c.path))
    IN  /\ r.status = "delivered" /\ r.at = c.real_srv_ip
        /\ r.pkt.src = c.client_ip /\ r.pkt.dst = c.real_srv_ip
        /\ r.pkt.eth_dst = c.srv_mac

\* the backend's reply walked from the backend's port
NatReverseWalk ==
    LET c == nat_install
        r == Walk(NatEntries(flows), c.path[Len(c.path)], c.srv_port,
                  [src |-> c.real_srv_ip, dst |-> c.client_ip, eth_src |-> c.srv_mac,
                   eth_dst |-> c.client_mac, origin |-> c.real_srv_ip],
                  Len(c.path))
    IN  /\ r.status = "delivered" /\ r.at = c.client_ip
        /\ r.pkt.src = VIP_IP /\ r.pkt.dst = c.client_ip
        /\ r.pkt.eth_src = VIP_MAC /\ r.pkt.eth_dst = c.client_mac

\* ------------------------------------------------------------------------
\* C7: for a path of two or more registered switches install_nat_path
\* installs (a) the forward entries and (b) the reverse entries as
\* described, and walking the client's packet and the backend's reply
\* through these entries delivers each to the right port, rewritten.
\* ------------------------------------------------------------------------
C7_NatPathCarriesBothWays ==
    NatPathInstalled =>
        /\ NatForwardInstalled
        /\ NatReverseInstalled
        /\ NatForwardWalk
        /\ NatReverseWalk

SelectionCountsOne ==
    (wlc_last.ev = "packet_in" /\ wlc_last.use_wlc) =>
        /\ DOMAIN port_stats = DOMAIN wlc_last.before
        /\ \A d \in DOMAIN port_stats : \A i \in 1..Len(port_stats[d]) :
              port_stats[d][i].connections =
                wlc_last.before[d][i].connections
                  + (IF d = wlc_last.dpid /\ port_stats[d][i].port = wlc_last.port
                     THEN 1 ELSE 0)
        /\ wlc_last.port \in TrackedPorts(port_stats[wlc_last.dpid])

CounterDropsOnlyIn(events) ==
    \A d \in DOMAIN port_stats \cap DOMAIN wlc_last.before :
        \A i \in 1..Len(port_stats[d]) :
            port_stats[d][i].connections < wlc_last.before[d][i].connections
                => (wlc_last.ev \in events /\ wlc_last.dpid = d)

C9_AsClaimed ==
    SelectionCountsOne /\ CounterDropsOnlyIn({"flow_removed", "stats_reply"})

C9_IncrementOnSelect ==
    SelectionCountsOne /\ CounterDropsOnlyIn({"flow_removed", "stats_reply", "features"})

\* a WLC selection at a switch while both switches hold counted connections
C9_Witness ==
    /\ wlc_last.ev = "packet_in" /\ wlc_last.use_wlc
    /\ \A d \in WlcSwitches :
          d \in DOMAIN wlc_last.before /\ ConnOf(wlc_last.before[d], 3) >= 1
    /\ ConnOf(port_stats[wlc_last.dpid], wlc_last.port)
          = ConnOf(wlc_last.before[wlc_last.dpid], wlc_last.port) + 1

\* ------------------------------------------------------------------------
\* C10: when two ARP packet-ins with the same (dpid, src_ip, dst_ip, opcode)
\* are handled in succession and the dedup set held fewer than 100 entries
\* before the first, the first produces the packet-outs selected for it
\* (for a key not yet in the set: one to each determined port other than
\* the ingress port) and the second produces none.
\* ------------------------------------------------------------------------
C10_DuplicateArpSuppressed ==
    (/\ nl_last.ev = "arp" /\ nl_prev.ev = "arp"
     /\ nl_last.key = nl_prev.key
     /\ nl_prev.size_before < ArpDedupBound)
    => /\ nl_last.outs = << >>
       /\ ~nl_prev.dup =>
             /\ SeqSet(nl_prev.outs) =
                  SeqSet(NlArpOutPorts(nl_prev.dpid, nl_prev.in_port, nl_prev.dst_ip))
                    \ {nl_prev.in_port}
             /\ Len(nl_prev.outs) = Cardinality(SeqSet(nl_prev.outs))

\* the pair handled with 99 entries in the set before the first, which was
\* forwarded
C10_Witness ==
    /\ nl_last.ev = "arp" /\ nl_prev.ev = "arp"
    /\ nl_last.key = nl_prev.key
    /\ nl_prev.size_before = 99
    /\ ~nl_prev.dup /\ nl_prev.outs # << >>
    /\ nl_last.outs = << >>

\* ------------------------------------------------------------------------
\* C11: WRRController answers an ARP request for the VIP itself: its handler
\* sends exactly one packet-out, to the ingress port of the switch that
\* raised the packet-in, carrying an ARP reply with source MAC VIP_MAC and
\* source IP VIP_IP addressed to the requester; it sends no flood and no
\* packet-out to another port, and it installs no flow entry.
\* ------------------------------------------------------------------------
VipArpRequest(f) == f.eth_type = ETH_TYPE_ARP /\ f.opcode = 1 /\ f.dst = VIP_IP

C11_VipArpAnswered ==
    (pin_last.ev = "packet_in" /\ VipArpRequest(pin_last.frame)) =>
        /\ pin_last.out = [kind |-> "reply", dpid |-> pin_last.dpid,
                           port |-> pin_last.in_port]
        /\ pin_last.data.eth_type = ETH_TYPE_ARP
        /\ pin_last.data.opcode = 2
        /\ pin_last.data.eth_src = VIP_MAC
        /\ pin_last.data.src = VIP_IP
        /\ pin_last.data.eth_dst = pin_last.frame.eth_src
        /\ pin_last.data.dst = pin_last.frame.src
        /\ flows = pin_last.flows_before

\* the request handled when the switch already holds flow entries and a
\* backend is known, so a forwarding decision would have been possible
C11_Witness ==
    /\ pin_last.ev = "packet_in" /\ VipArpRequest(pin_last.frame)
    /\ flows[pin_last.dpid] # EmptyFn
    /\ 1 \in DOMAIN pin_last.hosts_before

\* ------------------------------------------------------------------------
\* C12: no packet-out that FatTreeNoLoop.handle_arp,
\* WeightedLeastConnectionController.handle_arp or
\* FatTreeSimple.packet_in_handler sends for an ARP packet-in outputs on the
\* port the packet arrived on, at the core, aggregation and edge tier, for
\* every ingress port and every kind of target address.
\* ------------------------------------------------------------------------
NoOutOnIngress(e) ==
    e.ev = "arp" => \A i \in 1..Len(e.outs) : e.outs[i] # e.in_port

C12_NoArpOutOnIngress == NoOutOnIngress(nl_last) /\ NoOutOnIngress(arp_last)

\* a core switch handles an ARP request for an address outside 1..16 that
\* arrived on port 2: all four ports are selected and three packet-outs go out
C12_Witness ==
    /\ nl_last.ev = "arp" /\ IsCore(nl_last.dpid) /\ nl_last.in_port = 2
    /\ nl_last.in_port \in SeqSet(NlArpOutPorts(nl_last.dpid, nl_last.in_port, nl_last.dst_ip))
    /\ nl_last.outs = <<1, 3, 4>>

\* ------------------------------------------------------------------------
\* C13: WRRController drops an IPv4 packet-in whose destination is neither
\* the VIP nor in the host registry: the handler sends no packet-out (none
\* with the FLOOD action in particular) and installs no flow entry.
\* ------------------------------------------------------------------------
UnknownDestination ==
    /\ pin_last.ev = "packet_in"
    /\ pin_last.frame.eth_type = ETH_TYPE_IP
    /\ pin_last.frame.dst # VIP_IP
    /\ pin_last.frame.dst \notin DOMAIN hosts

C13_UnknownDstDropped ==
    UnknownDestination =>
        /\ pin_last.out.kind = "none"
        /\ flows = pin_last.flows_before

\* ------------------------------------------------------------------------
\* C14: when WRRController finds no path from the packet-in switch to the
\* switch of the destination host (or of the selected backend), it drops the
\* packet: no flow entry is installed on any switch and no packet-out is sent.
\* ------------------------------------------------------------------------
PinTarget ==
    IF pin_last.frame.dst = VIP_IP THEN pin_last.selected ELSE pin_last.frame.dst

NoPathToTarget ==
    /\ pin_last.ev = "packet_in"
    /\ pin_last.frame.eth_type = ETH_TYPE_IP
    /\ PinTarget \in DOMAIN hosts
    /\ ~Reachable(pin_last.adj, pin_last.dpid, hosts[PinTarget].dpid)

C14_NoPathDropped ==
    NoPathToTarget =>
        /\ pin_last.out.kind = "none"
        /\ flows = pin_last.flows_before

\* ------------------------------------------------------------------------
\* C15: FatTreeNoLoop and the WLC controller silently drop a packet-in of
\* EtherType ARP that carries no ARP layer: the handler completes without
\* raising, sends no packet-out, and leaves arp_table and the ARP dedup
\* state (handled_arps, arp_cache) as they were.
\* ------------------------------------------------------------------------
C15_ArpWithoutLayerDropped ==
    arp_last.ev = "arp_no_layer" =>
        /\ ~arp_last.raised
        /\ arp_last.outs = << >>
        /\ arp_last.ctl = "noloop" =>
              /\ nl_arp_table = arp_last.arp_table_before
              /\ handled_arps.keys = arp_last.arp_cache_before
        /\ arp_last.ctl = "wlc" =>
              /\ wlc_arp_table = arp_last.arp_table_before
              /\ wlc_arp_cache = arp_last.arp_cache_before

\* ------------------------------------------------------------------------
\* C16: once WRRController has handled the disconnect (DEAD_DISPATCHER) of
\* switch X, X is in the adjacency table neither as a key nor as a neighbour
\* of another switch and the path cache is empty; and while X stays
\* disconnected and is not a key of the table again, no ecmp_paths call
\* between two different switches returns a path that contains X.
\* ------------------------------------------------------------------------
PathThroughDisconnected ==
    /\ ecmp_last.ev = "ecmp"
    /\ ecmp_last.src # ecmp_last.dst
    /\ \E x \in TopoFlapping :
          /\ x \notin DOMAIN adj /\ x \notin datapaths
          /\ \E i \in 1..Len(ecmp_last.paths) : InPath(ecmp_last.paths[i], x)

C16_DisconnectRemovesSwitch ==
    /\ ecmp_last.ev = "dead" =>
          /\ ecmp_last.src \notin DOMAIN adj
          /\ \A d \in DOMAIN adj : ecmp_last.src \notin Successors(adj, d)
          /\ paths_cache = EmptyFn
    /\ ~PathThroughDisconnected

\* ------------------------------------------------------------------------
\* C17: in every reachable state of WRRController, the value cached for each
\* key (src, dst) of paths_cache equals what ecmp_paths computes afresh on
\* the current adjacency table; so after any sequence of link-add,
\* switch-enter, disconnect and ecmp_paths events a call answered from the
\* cache returns what a fresh search would.
\* ------------------------------------------------------------------------
FreshPaths(src, dst) == ecmp_paths(adj, EmptyFn, src, dst).paths

C17_CacheNeverStale ==
    /\ \A key \in DOMAIN paths_cache : paths_cache[key] = FreshPaths(key[1], key[2])
    /\ ecmp_last.ev = "ecmp" => ecmp_last.paths = FreshPaths(ecmp_last.src, ecmp_last.dst)

\* a call answered from the cache with the two equal-cost paths across the
\* ring, in a table from which the cache had to be rebuilt after a change
C17_Witness ==
    /\ ecmp_last.ev = "ecmp" /\ ecmp_last.hit
    /\ Len(ecmp_last.paths) = 2
    /\ Len(topo_links) < Cardinality(TopoLinks)
    /\ Cardinality(DOMAIN paths_cache) >= 2

\* ------------------------------------------------------------------------
\* C18: every path ecmp_paths(src, dst) returns starts at src, ends at dst,
\* visits no switch twice, and for each consecutive pair (a, b) of it the
\* adjacency table holds an egress port adj[a][b]; so the lookup that
\* install_plain_path, install_nat_path and next_hop_port make for a
\* non-final hop of the path finds an output port.
\* ------------------------------------------------------------------------
ValidPath(p, src, dst) ==
    /\ Len(p) >= 1
    /\ p[1] = src /\ p[Len(p)] = dst
    /\ \A i, j \in 1..Len(p) : i # j => p[i] # p[j]
    /\ \A i \in 1..(Len(p) - 1) :
          /\ p[i] \in DOMAIN adj
          /\ PortToward(adj, p[i], p[i + 1]) # 0
    /\ next_hop_port(adj, src, p, 3, 4) # 0

pod(n) == (n - 1) \div 4
edgeInPod(n) == ((n - 1) % 4) \div 2
hostSlot(n) == (n - 1) % 2
HostSuffixes == 1..16

\* the priority-100 rule of a table for 10.0.0.n
LocalRule(n) == NlMatch(100, ETH_TYPE_IP, n, 0, 0, 0)
HasRule(table, n, port) ==
    LocalRule(n) \in DOMAIN table /\ table[LocalRule(n)] = << port >>

\* C19: for every connected switch of the k=4 fat tree and every host suffix
\* n in 1..16, a core switch (1-4) has a priority-100 rule for 10.0.0.n to
\* port pod(n)+1; an aggregation switch (5-12) has one exactly when pod(n) is
\* its pod (dpid-5) div 2, to port edgeInPod(n)+1; an edge switch (13-20) has
\* one exactly when (n-1) div 2 = dpid-13, to port hostSlot(n)+1; and no
\* switch has a priority-100 rule other than these.
C19_ProactiveRulesFollowFormula ==
    \A dpid \in DOMAIN nl_flows :
        /\ \A n \in HostSuffixes :
              /\ dpid \in 1..4 => HasRule(nl_flows[dpid], n, pod(n) + 1)
              /\ dpid \in 5..12 =>
                    IF pod(n) = (dpid - 5) \div 2
                    THEN HasRule(nl_flows[dpid], n, edgeInPod(n) + 1)
                    ELSE LocalRule(n) \notin DOMAIN nl_flows[dpid]
              /\ dpid \in 13..20 =>
                    IF (n - 1) \div 2 = dpid - 13
                    THEN HasRule(nl_flows[dpid], n, hostSlot(n) + 1)
                    ELSE LocalRule(n) \notin DOMAIN nl_flows[dpid]
        /\ \A k \in DOMAIN nl_flows[dpid] :
              k.priority = 100 => \E n \in HostSuffixes : k = LocalRule(n)

\* an aggregation switch of pod 1 and an edge switch of pod 2 are programmed
C19_Witness ==
    /\ DOMAIN nl_flows = {8, 18}
    /\ HasRule(nl_flows[8], 7, 2)
    /\ HasRule(nl_flows[18], 12, 2)


\* ---- C20: local traffic at an edge switch uses the priority-100 rule ----
\* the IPv4 frames addressed to 10.0.0.n, from any of these MACs
FrameMacs == {1, 2, 9}
FramesTo(n) ==
    {NlFrame(ETH_TYPE_IP, s, d, n) : s \in FrameMacs, d \in FrameMacs}
EdgePorts == 1..4
LocalHosts(dpid) == {(dpid - 13) * 2 + 1, (dpid - 13) * 2 + 2}

\* C20: on a connected edge switch (13-20), in every flow-table state after
\* switch connect and reactive installs, an IPv4 packet addressed to one of
\* the switch's two local hosts, arriving on any port, is handled only by the
\* priority-100 rule for that host and output to the host's port: never by
\* the priority-0 table-miss rule, the priority-50 uplink rule or a
\* priority-10 reactive rule.
C20_LocalTrafficUsesLocalRule ==
    \A dpid \in DOMAIN nl_flows \cap 13..20 :
        \A n \in LocalHosts(dpid), in_port \in EdgePorts :
            \A f \in FramesTo(n) :
                /\ NlBestEntries(nl_flows[dpid], in_port, f) = {LocalRule(n)}
                /\ nl_flows[dpid][LocalRule(n)] = << hostSlot(n) + 1 >>

\* edge switch 13 holds a reactive rule that also matches a frame to host 1
C20_Witness ==
    /\ 13 \in DOMAIN nl_flows
    /\ NlMatch(10, 0, 0, 3, 1, 9) \in DOMAIN nl_flows[13]
    /\ NlEntryMatches(NlMatch(10, 0, 0, 3, 1, 9), 3, NlFrame(ETH_TYPE_IP, 9, 1, 1))
    /\ NlBestEntries(nl_flows[13], 3, NlFrame(ETH_TYPE_IP, 9, 1, 1)) = {LocalRule(1)}


\* ---- C21: ARP port selection on an edge switch ----
\* the candidate ports of an ARP frame at an edge switch: the target's port
\* for a local target of a frame from a host port, both uplinks for another
\* target, both host ports for a frame from an uplink
EdgeCandidates(dpid, in_port, dst_ip, sel) ==
    IF in_port \in {1, 2}
    THEN IF dst_ip \in LocalHosts(dpid)
         THEN sel = << hostSlot(dst_ip) + 1 >>
         ELSE Len(sel) = 2 /\ SeqSet(sel) = {3, 4}
    ELSE Len(sel) = 2 /\ SeqSet(sel) = {1, 2}

\* C21: on an edge switch, FatTreeNoLoop.handle_arp (for a key not seen
\* before) and the WLC handle_arp determine these output ports: from a host
\* port (1 or 2), only the target's port if the target is one of the edge's
\* two hosts, else exactly both uplinks (3 and 4); from an uplink (3 or 4),
\* exactly both host ports (1 and 2).
C21_EdgeArpCandidates ==
    /\ (nl_last.ev = "arp" /\ ~nl_last.dup /\ IsEdge(nl_last.dpid)) =>
          EdgeCandidates(nl_last.dpid, nl_last.in_port, nl_last.dst_ip, nl_last.sel)
    /\ (arp_last.ev = "arp" /\ arp_last.ctl = "wlc" /\ IsEdge(arp_last.dpid)) =>
          EdgeCandidates(arp_last.dpid, arp_last.in_port, arp_last.dst_ip, arp_last.sel)

\* FatTreeNoLoop sent a request from host port 1 for local host 2 to port 2
C21_Witness ==
    /\ nl_last.ev = "arp" /\ ~nl_last.dup
    /\ nl_last.dpid = 13 /\ nl_last.in_port = 1 /\ nl_last.dst_ip = 2
    /\ nl_last.sel = <<2>>

\* ---- C22: FatTreeNoLoop ARP port selection on an aggregation switch ----
\* C22: in FatTreeNoLoop.handle_arp on an aggregation switch (5-12), an ARP
\* frame from an edge-facing port (1 or 2) whose target is in the switch's
\* pod goes only to the edge-facing port of the target's edge switch, and
\* one whose target is outside the pod goes to the uplinks 3 and 4.
C22_AggArpStaysInPod ==
    (nl_last.ev = "arp" /\ ~nl_last.dup /\ IsAgg(nl_last.dpid)
        /\ nl_last.in_port \in {1, 2}) =>
        IF nl_last.dst_ip \in HostSuffixes /\ pod(nl_last.dst_ip) = (nl_last.dpid - 5) \div 2
        THEN nl_last.sel = << edgeInPod(nl_last.dst_ip) + 1 >>
        ELSE nl_last.sel = <<3, 4>>


\* ---- C23: install_nat_path on a path of one switch ----
\* the forward and the reverse rule of a NAT call on its single switch
OneSwitchForward(c) == Actions(0, c.real_srv_ip, 0, c.srv_mac, c.srv_port)
OneSwitchReverse(c) == Actions(VIP_IP, 0, VIP_MAC, 0, c.src_port)
OneSwitchCall(c) == c.ev = "nat" /\ Len(c.path) = 1

\* C23: when install_nat_path runs on a path of length 1 (client and backend
\* registered on the same switch, with the ports and MAC of the registry),
\* the tables change by exactly two entries, both on
\* that switch: the forward rule (client -> VIP: set ipv4_dst to the backend
\* IP and eth_dst to the backend MAC, output to the backend's port) and the
\* reverse rule (backend -> client: set ipv4_src to the VIP and eth_src to
\* VIP_MAC, output to the client's port); no other switch gets a rule.
C23_OneSwitchNat ==
    [][ OneSwitchCall(nat_install') =>
          LET c == nat_install'
              d == c.path[1]
          IN  /\ c.srv_port = hosts'[c.real_srv_ip].port
              /\ c.srv_mac = hosts'[c.real_srv_ip].mac
              /\ c.src_port = hosts'[c.client_ip].port
              /\ d = hosts'[c.client_ip].dpid /\ d = hosts'[c.real_srv_ip].dpid
              /\ \A x \in DOMAIN flows' \ {d} : flows'[x] = flows[x]
              /\ DOMAIN flows'[d] =
                   DOMAIN flows[d] \cup {Match(NatPriority, c.client_ip, VIP_IP),
                                         Match(NatPriority, c.real_srv_ip, c.client_ip)}
              /\ \A k \in DOMAIN flows'[d] :
                   flows'[d][k] =
                     IF k = Match(NatPriority, c.client_ip, VIP_IP) THEN OneSwitchForward(c)
                     ELSE IF k = Match(NatPriority, c.real_srv_ip, c.client_ip)
                     THEN OneSwitchReverse(c)
                     ELSE flows[d][k] ]_vars

\* the client and backend 10.0.0.2, both on switch 1, have their two rules
C23_Witness ==
    /\ OneSwitchCall(nat_install)
    /\ nat_install.real_srv_ip = 2
    /\ flows[1][Match(NatPriority, ClientIp, VIP_IP)] = Actions(0, 2, 0, 2, 4)
    /\ flows[1][Match(NatPriority, 2, ClientIp)] = Actions(VIP_IP, 0, VIP_MAC, 0, 3)
    /\ Match(NatPriority, 2, ClientIp) \notin DOMAIN flows[2]


\* ---- C24: an install that meets a switch that is not registered ----
\* no entry with match m is written on a hop of the chain that comes after
\* a hop whose switch is not registered
ChainStops(chain, m) ==
    \A i, j \in 1..Len(chain) :
        (i < j /\ chain[i] \notin datapaths) =>
            /\ m \in DOMAIN flows'[chain[j]] => m \in DOMAIN flows[chain[j]]
            /\ m \in DOMAIN flows[chain[j]] => flows'[chain[j]][m] = flows[chain[j]][m]

\* the path install_plain_path is given for the frame of a packet-in
PlainPathOf(f) == FreshPaths(hosts'[f.src].dpid, hosts'[f.dst].dpid)

\* C24: when install_plain_path or install_nat_path walks a path on which a
\* switch is no longer registered, the hops of that chain (forward or
\* reverse) after the unregistered switch get no rule.
C24_InstallStopsAtDeadSwitch ==
    [][ /\ (/\ pin_last'.ev = "packet_in"
            /\ pin_last'.frame.eth_type = ETH_TYPE_IP
            /\ pin_last'.frame.dst # VIP_IP
            /\ pin_last'.frame.dst \in DOMAIN hosts'
            /\ PlainPathOf(pin_last'.frame) # << >>) =>
              LET f == pin_last'.frame
                  p == PlainPathOf(f)[1]
              IN  /\ ChainStops(p, Match(PlainPriority, f.src, f.dst))
                  /\ ChainStops(Reverse(p), Match(PlainPriority, f.dst, f.src))
        /\ nat_install'.ev = "nat" =>
              LET c == nat_install'
              IN  /\ ChainStops(c.path, Match(NatPriority, c.client_ip, VIP_IP))
                  /\ ChainStops(Reverse(c.path), NatReverseMatch(c)) ]_vars


\* ---- C25: host-to-host traffic and the NAT rules ----
\* C25: a packet a backend S sends to the client's own address (not through
\* the VIP) reaches the client with the ipv4_src, ipv4_dst, eth_src and
\* eth_dst it was sent with, in every flow-table state, also when a NAT path
\* between the two hosts is installed.
C25_DirectTrafficNotRewritten ==
    (nat_last.host = ClientIp /\ nat_last.pkt.origin \in NatTalkers) =>
        /\ nat_last.pkt.src = nat_last.pkt.origin
        /\ nat_last.pkt.dst = ClientIp
        /\ nat_last.pkt.eth_src = nat_last.pkt.origin
        /\ nat_last.pkt.eth_dst = ClientIp


\* ---- C26: the size of the dedup set ----
EmptyArpSet == [keys |-> {}, others |-> 0]

OutputsTo(body, port) ==
    Cardinality({i \in DOMAIN body : body[i].priority = 10 /\ body[i].port = port})

\* C27: after flow_stats_reply_handler has run for a switch in port_stats,
\* the counter of each tracked port of that switch is the number of output
\* actions to the port among the priority-10 entries of the reply, whatever
\* it was before; weights and the counters of every other switch are as
\* before; a reply from a switch not in port_stats leaves port_stats as it
\* was.
C27_StatsReplyRecounts ==
    wlc_last.ev = "stats_reply" =>
        IF wlc_last.dpid \in DOMAIN wlc_last.before
        THEN /\ DOMAIN port_stats = DOMAIN wlc_last.before
             /\ \A d \in DOMAIN port_stats \ {wlc_last.dpid} :
                    port_stats[d] = wlc_last.before[d]
             /\ Len(port_stats[wlc_last.dpid]) = Len(wlc_last.before[wlc_last.dpid])
             /\ \A i \in DOMAIN port_stats[wlc_last.dpid] :
                    LET now == port_stats[wlc_last.dpid][i]
                        was == wlc_last.before[wlc_last.dpid][i]
                    IN  /\ now.port = was.port /\ now.weight = was.weight
                        /\ now.connections = OutputsTo(wlc_last.body, now.port)
        ELSE port_stats = wlc_last.before

\* a reply listing two entries, one of priority 10 to port 3 and one to the
\* untracked port 2, arrived when the counters of ports 3 and 4 were 2 and 1
C27_Witness ==
    /\ wlc_last.ev = "stats_reply" /\ wlc_last.dpid = 13
    /\ 13 \in DOMAIN wlc_last.before
    /\ ConnOf(wlc_last.before[13], 3) = 2 /\ ConnOf(wlc_last.before[13], 4) = 1
    /\ wlc_last.body = << [priority |-> 10, port |-> 3], [priority |-> 10, port |-> 2] >>
    /\ ConnOf(port_stats[13], 3) = 1 /\ ConnOf(port_stats[13], 4) = 0


\* ---- C28: shortest paths between pods of the k=4 fat tree ----
UpAndDown(p) ==
    /\ Len(p) = 5
    /\ IsEdge(p[1]) /\ IsAgg(p[2]) /\ IsCore(p[3]) /\ IsAgg(p[4]) /\ IsEdge(p[5])

\* C28: on the adjacency built from the links of FatTreeFixed (k=4; in
\* this specification adj is empty until it is built from all 32 links),
\* ecmp_paths(13, 17) returns at least one path of 4 hops of the form
\* edge -> aggregation -> core -> aggregation -> edge, from 13 to 17, and
\* no path of fewer than 4 hops.
C28_InterPodPathsHaveFourHops ==
    (ecmp_last.ev = "ecmp" /\ ecmp_last.src = 13 /\ ecmp_last.dst = 17
        /\ adj # EmptyFn) =>
        /\ \E i \in DOMAIN ecmp_last.paths :
              /\ UpAndDown(ecmp_last.paths[i])
              /\ ecmp_last.paths[i][1] = 13 /\ ecmp_last.paths[i][5] = 17
        /\ \A i \in DOMAIN ecmp_last.paths : Len(ecmp_last.paths[i]) - 1 >= 4

\* the search on the built fat tree returned the four paths across the cores
C28_Witness ==
    /\ ecmp_last.ev = "ecmp" /\ ecmp_last.src = 13 /\ ecmp_last.dst = 17
    /\ DOMAIN adj = NlFabric
    /\ adj = AddLinks(EmptyFn, topo_links)
    /\ ~ecmp_last.hit
    /\ SeqSet(ecmp_last.paths) =
         {<<13, 5, 1, 9, 17>>, <<13, 5, 3, 9, 17>>, <<13, 6, 2, 10, 17>>, <<13, 6, 4, 10, 17>>}


\* ---- C29: the 60:40 split of WLC selections ----
\* C29: at an edge or aggregation switch with uplink weights {3: 3, 4: 2},
\* counters at zero when the switch connects and no flow-removed or
\* flow-stats event since, each WLC selection adds one to the counter of the
\* port it selected; whenever 5N selections have been made (N >= 1), port 3
\* has been selected 3N times and port 4 2N times.
C29_SelectionsSplitThreeToTwo ==
    \A dpid \in DOMAIN port_stats :
        LET c3 == ConnOf(port_stats[dpid], 3)
            c4 == ConnOf(port_stats[dpid], 4)
        IN  (c3 + c4) % 5 = 0 =>
                c3 = 3 * ((c3 + c4) \div 5) /\ c4 = 2 * ((c3 + c4) \div 5)

\* ten selections have been made at edge switch 13: six of port 3, four of
\* port 4
C29_Witness ==
    /\ 13 \in DOMAIN port_stats
    /\ ConnOf(port_stats[13], 3) = 6 /\ ConnOf(port_stats[13], 4) = 4
    /\ wlc_last.ev = "packet_in" /\ wlc_last.use_wlc /\ wlc_last.dpid = 13


\* ---- C30: weighted_least_connection and servers of weight 0 ----
\* C30: FatTreeLoadBalancer.weighted_least_connection never returns a
\* server of weight 0 while a server of weight > 0 is configured, whatever
\* the active_conn values are.
C30_ZeroWeightNeverSelected ==
    (\E j \in DOMAIN lb_server_list : lb_server_list[j].weight > 0) =>
        \A i \in DOMAIN lb_hist : lb_server_list[lb_hist[i]].weight > 0


\* ---- C31: IPv4 packets for destinations that are not fabric hosts ----
FabricHosts == 1..16

\* C31: in the WLC controller an IPv4 packet-in whose destination is not one
\* of the hosts 10.0.0.1-16 installs no flow rule and sends no packet-out
\* (no output port is decided), and every output port decided by
\* handle_ip_with_wlc is one of the ports 1..4 of the switch.
C31_UnknownDestinationDropped ==
    wlc_last.ev = "packet_in" =>
        /\ wlc_last.dst \notin FabricHosts => wlc_last.port = 0
        /\ wlc_last.port # 0 => wlc_last.port \in WlcPorts


\* ---- C32: the connection counters against the installed flows ----
WlcQuiescent == wlc_to_ctl = << >> /\ wlc_to_sw = << >>
LiveFlowsTo(port) == Cardinality({e \in wlc_flows : e.priority = 10 /\ e.port = port})

\* C32: in the WLC controller, whenever no control message is in flight, the
\* connections counter of every tracked uplink port equals the number of
\* priority-10 entries installed on the switch that output to that port.
C32_CountersMatchLiveFlows ==
    (WlcQuiescent /\ WlcNetSwitch \in DOMAIN port_stats) =>
        \A i \in DOMAIN port_stats[WlcNetSwitch] :
            port_stats[WlcNetSwitch][i].connections
                = LiveFlowsTo(port_stats[WlcNetSwitch][i].port)


\* ---- C33: session affinity of the VIP traffic ----
\* the backends the client's VIP traffic is rewritten to by a forward entry
\* installed on a switch or sent to one
LiveBackends ==
    {t[Match(NatPriority, ClientIp, VIP_IP)].set_ipv4_dst :
        t \in {tab \in {flows[d] : d \in DOMAIN flows} \cup {nat_pending[d] : d \in DOMAIN nat_pending} :
                  /\ Match(NatPriority, ClientIp, VIP_IP) \in DOMAIN tab
                  /\ tab[Match(NatPriority, ClientIp, VIP_IP)].set_ipv4_dst # 0}}

ClientVipPacketIn ==
    wire.at = "ctrl" /\ wire.pkt.src = ClientIp /\ wire.pkt.dst = VIP_IP

\* C33: once a backend has been selected for the client's traffic to the VIP
\* and the NAT path has been sent, a further packet-in for that traffic keeps
\* the client on the same backend and does not advance the WRR cursor.
C33_SessionAffinity ==
    [][ (ClientVipPacketIn /\ LiveBackends # {}) =>
            /\ nat_install'.ev = "nat" => nat_install'.real_srv_ip \in LiveBackends
            /\ current_index' = current_index
            /\ current_weight' = current_weight ]_vars


\* ---- C34: the host registry names the hosts' attachment points ----
\* C34: in WRRController every entry hosts[ip] names the switch and the
\* host-facing port the host owning that address is attached to; a packet-in
\* raised for the host's traffic at another switch does not replace it.
C34_RegistryNamesAttachment ==
    \A ip \in DOMAIN hosts :
        /\ hosts[ip].dpid = NatHostAt[ip].dpid
        /\ hosts[ip].port = NatHostAt[ip].port

\* ---- C35 ----
\* the edge port the target of the request hangs on
FaTargetPort == [dpid |-> FatHostEdge(fa_req.dst), port |-> FatHostPort(fa_req.dst)]

\* C35: under FatTreeNoLoop, with the de-duplication set empty when the
\* request is sent, an ARP request from a host for another host is eventually
\* emitted on the edge port of the target, wherever the target is
C35_ArpRequestReachesTarget ==
    (app = "noloop" /\ fa_req # NoRequest) ~> (FaTargetPort \in fa_out)

\* ---- C36 ----
\* the packet was emitted on the port of its destination host, once
FaDeliveredWithin(n) ==
    /\ \A o \in fa_out : /\ o.dpid = FatHostEdge(fa_req.dst)
                         /\ o.port = FatHostPort(fa_req.dst)
                         /\ o.hops <= n
    /\ Cardinality(fa_out) = 1

\* C36: with the proactive entries of FatTreeNoLoop on all 20 switches, an
\* IPv4 packet from a host to another host never raises a packet-in, never
\* visits a switch twice, has crossed fewer than 5 switches while in flight,
\* and once out of flight was delivered on the port of the destination host
\* after at most 5 switch hops
C36_ProactiveDelivery ==
    (app = "noloop" /\ fa_req # NoRequest) =>
        /\ fa_pins = 0
        /\ ~fa_bad
        /\ \A c \in DOMAIN fa_copies : c.hops < 5 /\ c.dpid \notin c.seen
        /\ fa_copies = EmptyFn => FaDeliveredWithin(5)
        /\ fa_copies # EmptyFn => fa_out = {}

\* a packet to another pod was delivered after exactly five switch hops
C36_Witness ==
    /\ fa_req # NoRequest
    /\ fa_copies = EmptyFn
    /\ (fa_req.src - 1) \div 4 # (fa_req.dst - 1) \div 4
    /\ \E o \in fa_out : o.hops = 5 /\ o.dpid = FatHostEdge(fa_req.dst)

\* ---- C37 ----
\* C37: on the k=4 fat tree, under FatTreeNoLoop, WLC and FatTreeSimple, no
\* copy of a host's ARP frame is sent upward after a downward hop, one frame
\* causes at most 1 + 2 + 4 + 12 + 24 packet-ins (each with at most four
\* packet-outs), and eventually no copy remains in flight
C37_ArpLoopFree ==
    /\ [](~fa_bad /\ fa_pins <= 1 + 2 + 4 + 12 + 24)
    /\ (fa_req # NoRequest) ~> (fa_copies = EmptyFn)

\* a request to another pod under FatTreeSimple went up to the four cores,
\* down into the three other pods and out of flight
C37_Witness ==
    /\ app = "simple"
    /\ fa_req # NoRequest
    /\ fa_copies = EmptyFn
    /\ fa_pins = 1 + 2 + 4 + 12 + 24
    /\ FaTargetPort \in fa_out

\* ---- C38 ----
\* the hosts a switch has priority-100 rules for, and the port of each
ProactiveHosts(dpid) ==
    IF IsCore(dpid) THEN 1..16
    ELSE IF IsAgg(dpid) THEN {n \in 1..16 : (n - 1) \div 4 = (dpid - 5) \div 2}
    ELSE {n \in 1..16 : (n - 1) \div 2 = dpid - 13}

ProactivePort(dpid, n) ==
    IF IsCore(dpid) THEN ((n - 1) \div 4) + 1
    ELSE IF IsAgg(dpid) THEN (((n - 1) % 4) \div 2) + 1
    ELSE ((n - 1) % 2) + 1

\* the proactive set of a switch, entry by entry
ProactiveSet(dpid) ==
    { [match |-> NlMatch(0, 0, 0, 0, 0, 0), actions |-> <<OFPP_CONTROLLER>>],
      [match |-> NlMatch(200, ETH_TYPE_IPV6, 0, 0, 0, 0), actions |-> << >>] }
    \cup { [match |-> NlMatch(100, ETH_TYPE_IP, n, 0, 0, 0),
            actions |-> << ProactivePort(dpid, n) >>] : n \in ProactiveHosts(dpid) }
    \cup (IF IsCore(dpid) THEN {}
          ELSE { [match |-> NlMatch(50, ETH_TYPE_IP, 0, 0, 0, 0), actions |-> <<3>>] })

TableEntries(table) == { [match |-> k, actions |-> table[k]] : k \in DOMAIN table }

\* C38: once switch_features_handler has run for a switch and its messages
\* are applied in order, the table of the switch is exactly the proactive
\* set, whatever the table held before, also at a second connect
C38_FeaturesLeaveProactiveSet ==
    [][ nl_last'.ev = "features" /\ nl_last' # nl_last
          => TableEntries(nl_flows'[nl_last'.dpid]) = ProactiveSet(nl_last'.dpid) ]_vars

\* edge switch 13 connected again over a table that held a reactive
\* priority-10 entry, and holds the proactive set
C38_Witness ==
    /\ nl_last.ev = "features"
    /\ nl_last.dpid = 13
    /\ \E k \in DOMAIN nl_last.before : k.priority = 10
    /\ TableEntries(nl_flows[13]) = ProactiveSet(13)

\* ---- C39 ----
\* C39: for a non-empty server list with a weight >= 1, every call of
\* get_next_server leaves its loop after at most len(server_list) x
\* max_weight iterations; after every call 1 <= current_weight <= max_weight
\* and 0 <= current_index < len(server_list), and no server of weight 0 was
\* returned
C39_SelectionTerminatesInBounds ==
    /\ [](wrr_hist # << >> =>
            /\ 1 <= current_weight /\ current_weight <= max_weight
            /\ 0 <= current_index /\ current_index < Len(server_list)
            /\ \A i \in DOMAIN wrr_hist : weights[wrr_hist[i]] # 0)
    /\ [][ wrr_hist' # wrr_hist =>
             WrrLoop(current_index, current_weight).n <= Len(server_list) * max_weight ]_vars

\* a list holding a weight-0 server in front of a weighted one has served
\* several calls, the last of which passed over the weight-0 server
C39_Witness ==
    /\ Len(server_list) >= 2
    /\ weights[server_list[1]] = 0
    /\ Len(wrr_hist) >= 3
    /\ current_index # 0

====
